---- MODULE Spec2Model ----
(***************************************************************************)
(* A model of thinxai-web/web_chat.py: the history store (load_history,    *)
(* save_message), the assistant process adapter (call_claude_streaming)    *)
(* and the two server-sent-event relays (handle_message_stream,            *)
(* handle_draw_bot_stream) with the keep-alive ticker.                     *)
(*                                                                         *)
(* Three specifications share the definitions below:                       *)
(*   HistSpec    the history store under arbitrary appends, reads with any *)
(*               limit, and damaged log lines;                             *)
(*   AdapterSpec call_claude_streaming at byte level: the child process    *)
(*               writes to a pipe, the adapter reads chunks of any size;   *)
(*   Spec        the streaming handlers, the ticker, the clock, the client *)
(*               connection and the history logs.                          *)
(***************************************************************************)
EXTENDS Integers, Sequences, FiniteSets, TLC

VARIABLES
    \* ---- history store (files under HISTORY_DIR) ----
    history,            \* identity -> [exists, lines]: one .jsonl file each
    lastRead,           \* what the last load_history call was given and returned
    \* ---- assistant process and adapter (call_claude_streaming) ----
    pipe,               \* bytes written to stdout and not yet read
    closed,             \* the process has closed stdout
    stream,             \* every byte the process has written to stdout so far
    buffer,             \* the adapter's local `buffer`
    result_text,        \* the adapter's local `result_text`
    events,             \* the events passed to on_event, in order
    apc,                \* the adapter's position
    cbFailAt,           \* on_event raises on its cbFailAt-th call (0: never)
    cut,                \* some read so far ended in the middle of a line
    \* ---- streaming request (handle_message_stream / handle_draw_bot_stream) ----
    hpc,                \* the handler's position
    bot,                \* which endpoint serves the current request
    now,                \* event-loop clock, counted from response.prepare
    connected,          \* the client still holds the connection
    writes,             \* every response.write attempted, in order
    lastWrite,          \* clock value of the last write that reached the client
    keep_alive_active,  \* keep_alive_active[0]
    last_event_time,    \* last_event_time[0]
    tpc,                \* the keep-alive task's position
    wakeAt,             \* clock value at which the ticker's sleep(5) ends
    user_message,       \* the stripped message of the request body
    returncode,         \* the handler's local `returncode`
    stderr_text,        \* the decoded stderr of the process
    result,             \* the handler's local `result`
    chunk_i,            \* the loop variable i of the chunking loop
    prompt,             \* full_prompt, from build_prompt until the process is spawned
    fed,                \* stdout lines the adapter has taken in this request
    \* ---- image serving (handle_image) ----
    ipc,                \* the handler's position
    img_files,          \* the files that exist, as resolved paths
    img_path,           \* the request's `path` query parameter
    img_response,       \* the response returned
    \* ---- upload (handle_upload) ----
    upc,                \* the handler's position
    up_received,        \* the chunks read_chunk has returned, in order
    up_size,            \* the handler's local `size`
    up_file,            \* the file at file_path: [exists, data]
    up_response,        \* the response returned
    \* ---- e-mail (send_email / send_calendar_invite) ----
    epc,                \* the function's position
    em_call,            \* the call: function, credentials, arguments
    em_smtp,            \* the SMTP operations carried out, in order
    em_result,          \* what the call returned, or that it raised
    \* ---- "Clean response" on its own ----
    cpc,                \* position: before or after the cleaning
    raw_result,         \* `result` as the adapter returned it
    clean_result,       \* `result` after the two re.sub calls and strip()
    \* ---- concurrent streaming requests on one event loop ----
    rpc,                \* request -> the statement it is suspended in
    \* ---- the assistant process and its two pipes ----
    proc_todo,          \* the writes the process has still to make, in order
    proc_exited,        \* the process has exited (both pipes closed)
    stdout_pipe,        \* units of data held by the stdout pipe
    stderr_pipe,        \* units of data held by the stderr pipe
    pipe_cap,           \* [out, err]: what each pipe holds at most
    wpc,                \* the adapter's position
    on_event_calls,     \* calls of on_event so far
    raise_at            \* on_event raises on this call (0: never)

histVars    == <<history, lastRead>>
adapterVars == <<pipe, closed, stream, buffer, result_text, events, apc, cbFailAt, cut>>
streamVars  == <<hpc, bot, now, connected, writes, lastWrite, keep_alive_active,
                 last_event_time, tpc, wakeAt, user_message, returncode,
                 stderr_text, result, chunk_i, prompt, fed>>
imageVars   == <<ipc, img_files, img_path, img_response>>
uploadVars  == <<upc, up_received, up_size, up_file, up_response>>
emailVars   == <<epc, em_call, em_smtp, em_result>>
cleanVars   == <<cpc, raw_result, clean_result>>
turnVars    == <<rpc>>
pipeVars    == <<proc_todo, proc_exited, stdout_pipe, stderr_pipe, pipe_cap, wpc,
                 on_event_calls, raise_at>>
laterVars   == <<cleanVars, turnVars, pipeVars>>
utilVars    == <<imageVars, uploadVars, emailVars, laterVars>>
vars        == <<histVars, adapterVars, streamVars, utilVars>>

-----------------------------------------------------------------------------
(* Bounds of the model.                                                    *)
MaxLog == 3
MaxLimit == 3
MaxLines == 2
MaxFail == 2
MaxTime == 8
MaxEvents == 2
BigName == 9000

-----------------------------------------------------------------------------
(* Text.  A Python str is a run-length encoded sequence of characters:     *)
(* <<[c |-> "x", n |-> 16384], [c |-> "NL", n |-> 1]>> is 16384 times "x"  *)
(* and a newline.  Texts are kept in normal form (no empty run, no two     *)
(* adjacent runs of one character), so equal strings are equal values.     *)

Min(a, b) == IF a < b THEN a ELSE b
Max(a, b) == IF a > b THEN a ELSE b

Run(ch, k) == IF k <= 0 THEN <<>> ELSE <<[c |-> ch, n |-> k]>>
Plain(k) == Run("x", k)

RECURSIVE TextLen(_)
TextLen(t) == IF t = <<>> THEN 0 ELSE Head(t).n + TextLen(Tail(t))

\* a + b
Cat(a, b) ==
    IF a = <<>> THEN b
    ELSE IF b = <<>> THEN a
    ELSE IF a[Len(a)].c = b[1].c
         THEN SubSeq(a, 1, Len(a) - 1)
              \o <<[c |-> b[1].c, n |-> a[Len(a)].n + b[1].n]>>
              \o Tail(b)
         ELSE a \o b

\* t[:k]
RECURSIVE Take(_, _)
Take(t, k) ==
    IF k <= 0 \/ t = <<>> THEN <<>>
    ELSE IF Head(t).n >= k THEN Run(Head(t).c, k)
    ELSE Cat(<<Head(t)>>, Take(Tail(t), k - Head(t).n))

\* t[k:]
RECURSIVE Drop(_, _)
Drop(t, k) ==
    IF k <= 0 \/ t = <<>> THEN t
    ELSE IF Head(t).n > k THEN <<[c |-> Head(t).c, n |-> Head(t).n - k]>> \o Tail(t)
    ELSE Drop(Tail(t), k - Head(t).n)

\* t[lo:hi] for 0 <= lo
Slice(t, lo, hi) == Take(Drop(t, lo), hi - lo)

\* t.replace(a, b) for single characters a, b
RECURSIVE ReplaceChar(_, _, _)
ReplaceChar(t, a, b) ==
    IF t = <<>> THEN <<>>
    ELSE Cat(Run(IF Head(t).c = a THEN b ELSE Head(t).c, Head(t).n),
             ReplaceChar(Tail(t), a, b))

-----------------------------------------------------------------------------
(* History store.                                                          *)

WEB_USER_ID == "web_user"
DRAW_BOT_ID == "web_user_draw_bot"
Identities == {WEB_USER_ID, DRAW_BOT_ID}

NoFile == [exists |-> FALSE, lines |-> <<>>]

\* A line of a log file.  json.dumps(entry) writes a JSON object on one line
\* (newlines inside strings are escaped); a damaged file can also hold a line
\* that is no JSON ("garbage": a partial write), a JSON value that is no object
\* ("scalar") and a line of white space only ("blank").
JsonDumpsLine(entry) == [k |-> "object", v |-> entry]
ScalarLine  == [k |-> "scalar",  v |-> [scalar |-> 42]]
GarbageLine == [k |-> "garbage", v |-> [scalar |-> 0]]
BlankLine   == [k |-> "blank",   v |-> [scalar |-> 0]]

LineIsBlank(line) == line.k = "blank"
\* json.loads(line) raises json.JSONDecodeError
JsonLoadsRaises(line) == line.k \in {"garbage", "blank"}
JsonLoads(line) == line.v

\* The loop of load_history over the lines of the file: the messages appended
\* so far, and whether json.loads raised (the try encloses the whole loop).
RECURSIVE ReadMessages(_, _)
ReadMessages(lines, messages) ==
    IF lines = <<>> THEN [raised |-> FALSE, messages |-> messages]
    ELSE IF LineIsBlank(Head(lines)) THEN ReadMessages(Tail(lines), messages)
    ELSE IF JsonLoadsRaises(Head(lines)) THEN [raised |-> TRUE, messages |-> messages]
    ELSE ReadMessages(Tail(lines), Append(messages, JsonLoads(Head(lines))))

\* messages[-limit:]
PyLastN(messages, limit) ==
    LET start == IF limit > 0 THEN Max(Len(messages) - limit, 0)
                 ELSE Min(-limit, Len(messages))
    IN  SubSeq(messages, start + 1, Len(messages))

LoadHistory(h, user_id, limit) ==
    IF ~h[user_id].exists THEN <<>>
    ELSE LET r == ReadMessages(h[user_id].lines, <<>>)
         IN  IF r.raised THEN <<>> ELSE PyLastN(r.messages, limit)

\* The entry save_message builds.  The timestamp field (datetime.now()) is
\* wall-clock time that nothing reads back; it is left out.
HistoryEntry(role, content) == [role |-> role, content |-> content, source |-> "web"]

\* (a variant that opens the file with 'w')
SaveMessageTruncating(h, user_id, role, content, ok) ==
    IF ok
    THEN [h EXCEPT ![user_id] =
             [exists |-> TRUE,
              lines  |-> <<JsonDumpsLine(HistoryEntry(role, content))>>]]
    ELSE h

\* open(path, 'a') and one write; ok = FALSE is the I/O error the except swallows.
SaveMessage(h, user_id, role, content, ok) ==
    IF ok
    THEN [h EXCEPT ![user_id] =
             [exists |-> TRUE,
              lines  |-> @.lines \o <<JsonDumpsLine(HistoryEntry(role, content))>>]]
    ELSE h

-----------------------------------------------------------------------------
(* The assistant's stdout.  A byte is one of the tokens below.  The wire   *)
(* format (one JSON value per line) is modelled by a small code: a tag     *)
(* byte and, for the two events that carry text, the text's characters.    *)
(*   D t..  {"type":"content_block_delta","delta":{"type":"text_delta",    *)
(*           "text":"t.."}}                                                *)
(*   R t..  {"type":"result","result":"t.."}                               *)
(*   S      {"type":"system","subtype":"init"}                             *)
(*   T      {"type":"assistant","message":{"content":[{"type":"tool_use",  *)
(*           "name":"a"}]}}                                                *)
(*   U      {"type":"user","message":{"content":[{"type":"tool_result",    *)
(*           "content":"a"}]}}                                             *)
(*   O      {"type":"ping"}: an object of a type the code does not know    *)
(*   N      42: valid JSON that is no object                               *)
(*   Z      a byte that is not valid UTF-8                                 *)
(*   LF, SP newline and space                                              *)
(* Every other byte string is text that json.loads rejects.                *)

LF == "LF"
SP == "SP"
TextBytes == {"a", "b"}

\* A block of message.content: its type, and the fields the code reads (name
\* of a tool_use block, content of a tool_result block; content_is_str tells
\* whether block["content"] is a str).
Block(type, name, content, content_is_str) ==
    [type |-> type, name |-> name, content |-> content,
     content_is_str |-> content_is_str]
ToolUseBlock(nm)         == Block("tool_use", nm, <<>>, TRUE)
ToolResultBlock(c, istr) == Block("tool_result", <<>>, c, istr)
TextBlock                == Block("text", <<>>, <<>>, TRUE)

\* An event: the decoded JSON object, with the fields the code reads.  text is
\* delta.text of a content_block_delta event and result of a result event;
\* blocks is message.content.
Event(type, subtype, text, blocks) ==
    [type |-> type, subtype |-> subtype, text |-> text, blocks |-> blocks]
DeltaEvent(t)      == Event("content_block_delta", "", t, <<>>)
ResultEvent(t)     == Event("result", "", t, <<>>)
InitEvent          == Event("system", "init", <<>>, <<>>)
AssistantEvent(bl) == Event("assistant", "", <<>>, bl)
UserEvent(bl)      == Event("user", "", <<>>, bl)
ToolUseEvent(nm)   == AssistantEvent(<<ToolUseBlock(nm)>>)
ToolResultEvent(c) == UserEvent(<<ToolResultBlock(c, TRUE)>>)
ToolResultList     == UserEvent(<<ToolResultBlock(<<>>, FALSE)>>)
OtherEvent         == Event("ping", "", <<>>, <<>>)
NoEvent            == Event("", "", <<>>, <<>>)

\* bytes.strip()
RECURSIVE LStrip(_)
LStrip(bs) == IF bs # <<>> /\ Head(bs) = SP THEN LStrip(Tail(bs)) ELSE bs
RECURSIVE RStrip(_)
RStrip(bs) ==
    IF bs # <<>> /\ bs[Len(bs)] = SP THEN RStrip(SubSeq(bs, 1, Len(bs) - 1)) ELSE bs
Strip(bs) == RStrip(LStrip(bs))

\* The characters of a decoded string.
RECURSIVE BytesToText(_)
BytesToText(bs) ==
    IF bs = <<>> THEN <<>> ELSE Cat(Run(Head(bs), 1), BytesToText(Tail(bs)))

\* line.decode() raises UnicodeDecodeError
DecodeRaises(bs) == \E i \in 1..Len(bs) : bs[i] = "Z"

\* json.loads(s) of a stripped, decoded line: what came out.
\*   "error"  json.JSONDecodeError      "scalar" a value that is no dict
\*   "event"  a dict
JsonLoadsEvent(s) ==
    IF s = <<"N">> THEN [kind |-> "scalar", event |-> NoEvent]
    ELSE IF s = <<"S">> THEN [kind |-> "event", event |-> InitEvent]
    ELSE IF s = <<"T">> THEN [kind |-> "event", event |-> ToolUseEvent(Run("a", 1))]
    ELSE IF s = <<"U">> THEN [kind |-> "event", event |-> ToolResultEvent(Run("a", 1))]
    ELSE IF s = <<"O">> THEN [kind |-> "event", event |-> OtherEvent]
    ELSE IF s # <<>> /\ Head(s) \in {"D", "R"}
            /\ \A i \in 2..Len(s) : s[i] \in TextBytes
         THEN [kind |-> "event",
               event |-> IF Head(s) = "D" THEN DeltaEvent(BytesToText(Tail(s)))
                         ELSE ResultEvent(BytesToText(Tail(s)))]
    ELSE [kind |-> "error", event |-> NoEvent]

\* What one line of stdout comes to, before any event is used:
\*   "skip"   nothing happens (white space only, or json.JSONDecodeError)
\*   "raise"  an exception that only the outer `except Exception` catches
\*            (UnicodeDecodeError from decode, AttributeError from event.get)
\*   "event"  a decoded event
LineOutcome(line) ==
    IF Strip(line) = <<>> THEN [kind |-> "skip", event |-> NoEvent]
    ELSE IF DecodeRaises(line) THEN [kind |-> "raise", event |-> NoEvent]
    ELSE LET d == JsonLoadsEvent(Strip(line))
         IN  IF d.kind = "error" THEN [kind |-> "skip", event |-> NoEvent]
             ELSE IF d.kind = "scalar" THEN [kind |-> "raise", event |-> NoEvent]
             ELSE d

\* Text extraction of the main loop (a line that ended with a newline).
ExtractLoop(rt, e) ==
    LET afterDelta == IF e.type = "content_block_delta" THEN Cat(rt, e.text) ELSE rt
    IN  IF e.type = "result" /\ e.text # <<>> /\ afterDelta = <<>>
        THEN e.text ELSE afterDelta

\* Text extraction of the remaining buffer after end of stream.
ExtractRest(rt, e) ==
    IF e.type = "result" /\ e.text # <<>> /\ rt = <<>> THEN e.text ELSE rt

\* The adapter's run so far: result_text, the events passed to on_event, and
\* whether an exception has ended the reading (the outer except).
RunState(rt, evs, aborted) == [result_text |-> rt, events |-> evs, aborted |-> aborted]

\* One line in the adapter: decode, extract, call on_event.  on_event raises on
\* its failAt-th call; the exception leaves the loop.
LineStep(st, line, rest, failAt) ==
    LET o == LineOutcome(line) IN
    IF st.aborted \/ o.kind = "skip" THEN st
    ELSE IF o.kind = "raise" THEN [st EXCEPT !.aborted = TRUE]
    ELSE RunState(IF rest THEN ExtractRest(st.result_text, o.event)
                  ELSE ExtractLoop(st.result_text, o.event),
                  Append(st.events, o.event),
                  Len(st.events) + 1 = failAt)

\* Index of the first newline of bs, 0 when there is none.
FirstLF(bs) ==
    IF \E i \in 1..Len(bs) : bs[i] = LF
    THEN CHOOSE i \in 1..Len(bs) : bs[i] = LF /\ \A j \in 1..(i - 1) : bs[j] # LF
    ELSE 0

\* while b'\n' in buffer: line, buffer = buffer.split(b'\n', 1); ...
\* Returns the buffer left over and the run state.
\* (a variant that handles one line per chunk)
DrainBufferOneLine(buf, st, failAt) ==
    LET i == FirstLF(buf) IN
    IF i = 0 \/ st.aborted THEN [buffer |-> buf, st |-> st]
    ELSE [buffer |-> SubSeq(buf, i + 1, Len(buf)),
          st |-> LineStep(st, SubSeq(buf, 1, i - 1), FALSE, failAt)]

RECURSIVE DrainBuffer(_, _, _)
DrainBuffer(buf, st, failAt) ==
    LET i == FirstLF(buf) IN
    IF i = 0 \/ st.aborted THEN [buffer |-> buf, st |-> st]
    ELSE DrainBuffer(SubSeq(buf, i + 1, Len(buf)),
                     LineStep(st, SubSeq(buf, 1, i - 1), FALSE, failAt), failAt)

\* if buffer.strip(): ... after the read loop
DrainRest(buf, st, failAt) ==
    IF st.aborted THEN st ELSE LineStep(st, buf, TRUE, failAt)

-----------------------------------------------------------------------------
(* The SSE relay: payloads, send_sse_data, send_event.                     *)

MAX_SSE_EVENT_SIZE == 16384
MAX_SSE_CHUNK == 16384
SUMMARY_PREFIX == 500
ERROR_PREFIX == 500
BRIEF_LONG == 100
BRIEF_CAP == 150
KEEPALIVE_SLEEP == 5
KEEPALIVE_QUIET == 4

\* The characters json.dumps writes as two (\n, \", \\).
EscapedChars == {"NL", "QT", "BS"}

\* len(json.dumps(s)) - 2 for a str s
RECURSIVE JsonStrLen(_)
JsonStrLen(t) ==
    IF t = <<>> THEN 0
    ELSE (IF Head(t).c \in EscapedChars THEN 2 * Head(t).n ELSE Head(t).n)
         + JsonStrLen(Tail(t))

\* len of the literal strings used as keys and as "type" values
LitLen(s) ==
    CASE s = "type" -> 4
      [] s = "name" -> 4
      [] s = "message" -> 7
      [] s = "content" -> 7
      [] s = "partial" -> 7
      [] s = "truncated" -> 9
      [] s = "status" -> 6
      [] s = "tool" -> 4
      [] s = "tool_result" -> 11
      [] s = "error" -> 5
      [] s = "response" -> 8
      [] s = "response_chunk" -> 14
      [] s = "done" -> 4

\* A payload dict.  keys is the sequence of its keys in insertion order; the
\* other fields hold the values of the keys that are present.
Dict(keys, type, name, message, content, partial, truncated) ==
    [keys |-> keys, type |-> type, name |-> name, message |-> message,
     content |-> content, partial |-> partial, truncated |-> truncated]
NoDict == Dict(<<>>, "", <<>>, <<>>, <<>>, FALSE, FALSE)

HasKey(d, k) == \E i \in 1..Len(d.keys) : d.keys[i] = k

\* len(json.dumps(value)) of the value under key k
ValueLen(d, k) ==
    CASE k = "type" -> 2 + LitLen(d.type)
      [] k = "name" -> 2 + JsonStrLen(d.name)
      [] k = "message" -> 2 + JsonStrLen(d.message)
      [] k = "content" -> 2 + JsonStrLen(d.content)
      [] k = "partial" -> IF d.partial THEN 4 ELSE 5
      [] k = "truncated" -> IF d.truncated THEN 4 ELSE 5

\* len(json.dumps(d)): {"k": v, "k": v}
RECURSIVE ItemsLen(_, _)
ItemsLen(d, i) ==
    IF i > Len(d.keys) THEN 0
    ELSE LitLen(d.keys[i]) + 4 + ValueLen(d, d.keys[i])
         + (IF i < Len(d.keys) THEN 2 ELSE 0) + ItemsLen(d, i + 1)
DumpsLen(d) == 2 + ItemsLen(d, 1)

StatusDict(msg)        == Dict(<<"type", "message">>, "status", <<>>, msg, <<>>, FALSE, FALSE)
ToolDict(nm, msg)      == Dict(<<"type", "name", "message">>, "tool", nm, msg, <<>>, FALSE, FALSE)
ToolResultDict(msg)    == Dict(<<"type", "message">>, "tool_result", <<>>, msg, <<>>, FALSE, FALSE)
ResponseDict(c)        == Dict(<<"type", "content">>, "response", <<>>, <<>>, c, FALSE, FALSE)
ChunkDict(ty, c, part) == Dict(<<"type", "content", "partial">>, ty, <<>>, <<>>, c, part, FALSE)
ErrorDict(msg)         == Dict(<<"type", "message">>, "error", <<>>, msg, <<>>, FALSE, FALSE)
DoneDict               == Dict(<<"type">>, "done", <<>>, <<>>, <<>>, FALSE, FALSE)

\* The summary send_sse_data writes in place of a payload that is too large.
SummaryLong(d) ==
    Dict(<<"type", "message", "truncated">>,
         IF HasKey(d, "type") THEN d.type ELSE "status",
         <<>>,
         IF HasKey(d, "message") THEN d.message ELSE Plain(13),
         <<>>, FALSE, TRUE)

Summary(d) ==
    Dict(<<"type", "message", "truncated">>,
         IF HasKey(d, "type") THEN d.type ELSE "status",
         <<>>,
         Cat(Take(IF HasKey(d, "message") THEN d.message ELSE Plain(13),
                  SUMMARY_PREFIX),
             Plain(3)),
         <<>>, FALSE, TRUE)

\* What send_sse_data(data_dict) hands to response.write.
SseFrame(d) == IF DumpsLen(d) <= MAX_SSE_EVENT_SIZE THEN d ELSE Summary(d)

\* The status dict of one tool_use block.
ToolStatus(b, blk) ==
    ToolDict(blk.name, IF b = "main" THEN Cat(Cat(Plain(6), blk.name), Plain(3))
                       ELSE blk.name)

\* The status dict of one tool_result block.
ToolResultStatus(b, blk) ==
    LET brief ==
            IF blk.content_is_str /\ TextLen(blk.content) > BRIEF_LONG
            THEN Cat(ReplaceChar(Take(blk.content, BRIEF_LONG), "NL", "SP"), Plain(3))
            ELSE IF blk.content_is_str THEN ReplaceChar(blk.content, "NL", "SP")
            ELSE Plain(10)
    IN  ToolResultDict(IF b = "main" THEN Take(brief, BRIEF_CAP) ELSE Plain(10))

\* Only the first block of the message is looked at.
BlockStatusesFirst(b, blocks, wanted) ==
    IF blocks = <<>> \/ Head(blocks).type # wanted THEN <<>>
    ELSE IF wanted = "tool_use" THEN <<ToolStatus(b, Head(blocks))>>
    ELSE <<ToolResultStatus(b, Head(blocks))>>

\* for block in content: the dicts of the blocks of type wanted, in order.
RECURSIVE BlockStatuses(_, _, _)
BlockStatuses(b, blocks, wanted) ==
    IF blocks = <<>> THEN <<>>
    ELSE (IF Head(blocks).type # wanted THEN <<>>
          ELSE IF wanted = "tool_use" THEN <<ToolStatus(b, Head(blocks))>>
          ELSE <<ToolResultStatus(b, Head(blocks))>>)
         \o BlockStatuses(b, Tail(blocks), wanted)

\* The data_dicts send_event passes to send_sse_data for one event, in order.
SendEvent(b, e) ==
    IF e.type = "system" /\ e.subtype = "init"
    THEN <<StatusDict(IF b = "main" THEN Plain(15) ELSE Plain(24))>>
    ELSE IF e.type = "assistant" THEN BlockStatuses(b, e.blocks, "tool_use")
    ELSE IF e.type = "user" THEN BlockStatuses(b, e.blocks, "tool_result")
    ELSE <<>>

\* s.replace(a, rep) for a character a and a text rep
RECURSIVE Repeat(_, _)
Repeat(rep, k) == IF k <= 0 THEN <<>> ELSE Cat(rep, Repeat(rep, k - 1))
RECURSIVE ReplaceWith(_, _, _)
ReplaceWith(t, a, rep) ==
    IF t = <<>> THEN <<>>
    ELSE Cat(IF Head(t).c = a THEN Repeat(rep, Head(t).n) ELSE <<Head(t)>>,
             ReplaceWith(Tail(t), a, rep))

\* The escaping without the slice.
ErrorMsgUnbounded(msg) ==
    ReplaceWith(ReplaceWith(msg, "QT", <<[c |-> "BS", n |-> 1], [c |-> "QT", n |-> 1]>>),
                "NL", <<[c |-> "BS", n |-> 1], [c |-> "x", n |-> 1]>>)

\* error_msg[:500].replace('"', '\\"').replace('\n', '\\n')
ErrorMsg(msg) ==
    ReplaceWith(ReplaceWith(Take(msg, ERROR_PREFIX), "QT", <<[c |-> "BS", n |-> 1],
                                                            [c |-> "QT", n |-> 1]>>),
                "NL", <<[c |-> "BS", n |-> 1], [c |-> "x", n |-> 1]>>)  \* \ and n

\* len of the hand-written payload {"type":"error","message":"<msg>"}
ErrorRawLen(msg) == 29 + TextLen(msg)
\* len of the hand-written payload {"type":"done"}
DoneRawLen == 15

\* "Clean response".  Besides single characters a text holds fragments, each
\* standing for the characters shown; these characters occur in a text only
\* as these fragments, so a match begins and ends at fragment boundaries.
\*   "CI"  [ACTION:check_inbox        "DG"  :7  (a colon and digits)
\*   "SE"  [ACTION:send_email|        "RB"  ]
FirstIs(t, ch) == t # <<>> /\ Head(t).c = ch

\* The characters of t before the first ch; -1 when t holds no ch.
RECURSIVE CharsBefore(_, _)
CharsBefore(t, ch) ==
    IF t = <<>> THEN -1
    ELSE IF Head(t).c = ch THEN 0
    ELSE LET r == CharsBefore(Tail(t), ch)
         IN  IF r < 0 THEN -1 ELSE Head(t).n + r

\* The length of the match of r'\[ACTION:check_inbox(?::\d+)?\]\n?' at the start
\* of t; 0 when there is none.
MatchCheckInbox(t) ==
    IF ~FirstIs(t, "CI") THEN 0
    ELSE LET r == Drop(t, 1)
             body == IF FirstIs(r, "DG") /\ FirstIs(Drop(r, 1), "RB") THEN 3
                     ELSE IF FirstIs(r, "RB") THEN 2
                     ELSE 0
         IN  IF body = 0 THEN 0
             ELSE body + (IF FirstIs(Drop(t, body), "NL") THEN 1 ELSE 0)

\* The length of the match of r'\[ACTION:send_email\|[^\]]+\]\n?' at the start
\* of t; 0 when there is none.
MatchSendEmail(t) ==
    IF ~FirstIs(t, "SE") THEN 0
    ELSE LET k == CharsBefore(Drop(t, 1), "RB")
         IN  IF k < 1 THEN 0
             ELSE k + 2 + (IF FirstIs(Drop(t, k + 2), "NL") THEN 1 ELSE 0)

MatchAt(t, pattern) ==
    IF pattern = "check_inbox" THEN MatchCheckInbox(t) ELSE MatchSendEmail(t)

\* re.sub(pattern, '', t): the matches found in one scan from the left are
\* removed; the scan goes on after each match and never looks at its output.
RECURSIVE ReSub(_, _)
ReSub(t, pattern) ==
    IF t = <<>> THEN <<>>
    ELSE LET k == MatchAt(t, pattern)
         IN  IF k > 0 THEN ReSub(Drop(t, k), pattern)
             ELSE IF Head(t).c \in {"CI", "SE"}
                  THEN Cat(Run(Head(t).c, 1), ReSub(Drop(t, 1), pattern))
                  ELSE Cat(<<Head(t)>>, ReSub(Tail(t), pattern))

WhiteChars == {"SP", "NL"}
RECURSIVE TextLStrip(_)
TextLStrip(t) == IF t # <<>> /\ Head(t).c \in WhiteChars THEN TextLStrip(Tail(t)) ELSE t
RECURSIVE TextRStrip(_)
TextRStrip(t) ==
    IF t # <<>> /\ t[Len(t)].c \in WhiteChars
    THEN TextRStrip(SubSeq(t, 1, Len(t) - 1)) ELSE t
TextStrip(t) == TextRStrip(TextLStrip(t))

\* The two re.sub calls and result.strip().
CleanResponse(t) == TextStrip(ReSub(ReSub(t, "check_inbox"), "send_email"))

\* The payloads of the final answer, in the order written.
RECURSIVE ChunkFrames(_, _)
ChunkFrames(res, i) ==
    IF i >= TextLen(res) THEN <<>>
    ELSE LET is_last == (i + MAX_SSE_CHUNK >= TextLen(res))
         IN  <<ChunkDict(IF is_last THEN "response" ELSE "response_chunk",
                         Slice(res, i, i + MAX_SSE_CHUNK), ~is_last)>>
             \o ChunkFrames(res, i + MAX_SSE_CHUNK)

\* An answer written whole, whatever its length.
FinalFramesUnchunked(res) == <<ResponseDict(res)>>

FinalFrames(res) ==
    IF TextLen(res) > MAX_SSE_CHUNK THEN ChunkFrames(res, 0) ELSE <<ResponseDict(res)>>

-----------------------------------------------------------------------------
(* Values of the variables a specification does not use.                   *)

NoRead == [valid |-> FALSE, user_id |-> WEB_USER_ID, limit |-> 0,
           lines |-> <<>>, messages |-> <<>>]

HistIdle ==
    /\ history = [id \in Identities |-> NoFile]
    /\ lastRead = NoRead

AdapterIdle ==
    /\ pipe = <<>>
    /\ closed = FALSE
    /\ stream = <<>>
    /\ buffer = <<>>
    /\ result_text = <<>>
    /\ events = <<>>
    /\ apc = "idle"
    /\ cbFailAt = 0
    /\ cut = FALSE

\* The handler's `returncode` before call_claude_streaming has returned.
NoReturnCode == -1
StreamIdle ==
    /\ hpc = "idle"
    /\ bot = "none"
    /\ now = 0
    /\ connected = TRUE
    /\ writes = <<>>
    /\ lastWrite = 0
    /\ keep_alive_active = FALSE
    /\ last_event_time = 0
    /\ tpc = "none"
    /\ wakeAt = 0
    /\ user_message = <<>>
    /\ returncode = NoReturnCode
    /\ stderr_text = <<>>
    /\ result = <<>>
    /\ chunk_i = 0
    /\ prompt = <<>>
    /\ fed = 0

NoQuery == [given |-> FALSE, segs |-> <<>>]
NoImageResponse == [status |-> 0, served |-> <<>>]
ImageIdle ==
    /\ ipc = "idle"
    /\ img_files = {}
    /\ img_path = NoQuery
    /\ img_response = NoImageResponse

NoUploadFile == [exists |-> FALSE, data |-> <<>>]
NoUploadResponse == [status |-> 0, size |-> 0]
UploadIdle ==
    /\ upc = "idle"
    /\ up_received = <<>>
    /\ up_size = 0
    /\ up_file = NoUploadFile
    /\ up_response = NoUploadResponse

NoCall == [fn |-> "none", address |-> "unset", password |-> "unset", flag |-> FALSE]
NoResult == [returned |-> FALSE, raised |-> FALSE, success |-> FALSE, message |-> ""]
EmailIdle ==
    /\ epc = "idle"
    /\ em_call = NoCall
    /\ em_smtp = <<>>
    /\ em_result = NoResult

CleanIdle ==
    /\ cpc = "idle"
    /\ raw_result = <<>>
    /\ clean_result = <<>>

TurnIdle == rpc = <<>>

PipeIdle ==
    /\ proc_todo = <<>>
    /\ proc_exited = FALSE
    /\ stdout_pipe = 0
    /\ stderr_pipe = 0
    /\ pipe_cap = [out |-> 0, err |-> 0]
    /\ wpc = "idle"
    /\ on_event_calls = 0
    /\ raise_at = 0

LaterIdle == CleanIdle /\ TurnIdle /\ PipeIdle

UtilIdle == ImageIdle /\ UploadIdle /\ EmailIdle /\ LaterIdle

-----------------------------------------------------------------------------
(* HistSpec: the history store on its own.                                 *)

Roles == {"user", "assistant"}
HistContents == {Run("a", 1)}
DamagedLines == {GarbageLine, ScalarLine, BlankLine}

\* save_message(user_id, role, content)
LogLines == Len(history[WEB_USER_ID].lines) + Len(history[DRAW_BOT_ID].lines)

HistSave(user_id, role, content, ok) ==
    /\ LogLines < MaxLog
    /\ history' = SaveMessage(history, user_id, role, content, ok)
    /\ UNCHANGED <<lastRead, adapterVars, streamVars>>
    /\ UNCHANGED utilVars

\* The environment leaves a line in the file that save_message did not write
\* (a write cut short by a crash, an edit by hand).
HistDamage(user_id, line) ==
    /\ LogLines < MaxLog
    /\ history' = [history EXCEPT ![user_id] =
                      [exists |-> TRUE, lines |-> Append(@.lines, line)]]
    /\ UNCHANGED <<lastRead, adapterVars, streamVars>>
    /\ UNCHANGED utilVars

\* load_history(user_id, limit)
HistLoad(user_id, limit) ==
    /\ lastRead' = [valid |-> TRUE, user_id |-> user_id, limit |-> limit,
                    lines |-> history[user_id].lines,
                    messages |-> LoadHistory(history, user_id, limit)]
    /\ UNCHANGED <<history, adapterVars, streamVars>>
    /\ UNCHANGED utilVars

HistInit == HistIdle /\ AdapterIdle /\ StreamIdle /\ UtilIdle

HistNext ==
    \/ \E id \in Identities, r \in Roles, c \in HistContents, ok \in BOOLEAN :
          HistSave(id, r, c, ok)
    \/ \E id \in Identities, l \in DamagedLines : HistDamage(id, l)
    \/ \E id \in Identities, n \in 0..MaxLimit : HistLoad(id, n)

HistSpec == HistInit /\ [][HistNext]_vars

-----------------------------------------------------------------------------
(* AdapterSpec: call_claude_streaming against a process that writes lines  *)
(* to its stdout pipe while the adapter reads chunks of any size.          *)

READ_SIZE == 65536

\* The lines the process writes.
WireLines == { <<"D", "a">>, <<"D", "b">>, <<"R", "a">>, <<"R">>, <<SP, "S">>,
               <<"N">>, <<"Z">>, <<"a">>, <<SP>> }

NumLF(bs) == Cardinality({i \in 1..Len(bs) : bs[i] = LF})

\* The process writes one line and its newline.
ProcWriteLine(line) ==
    /\ apc # "idle" /\ ~closed
    /\ NumLF(stream) < MaxLines
    /\ pipe' = pipe \o line \o <<LF>>
    /\ stream' = stream \o line \o <<LF>>
    /\ UNCHANGED <<closed, buffer, result_text, events, apc, cbFailAt, cut,
                   histVars, streamVars>>
    /\ UNCHANGED utilVars

\* The process writes a last line without a newline and closes stdout.
ProcWriteTail(line) ==
    /\ apc # "idle" /\ ~closed
    /\ pipe' = pipe \o line
    /\ stream' = stream \o line
    /\ closed' = TRUE
    /\ UNCHANGED <<buffer, result_text, events, apc, cbFailAt, cut, histVars,
                   streamVars>>
    /\ UNCHANGED utilVars

\* The process closes stdout.
ProcClose ==
    /\ apc # "idle" /\ ~closed
    /\ closed' = TRUE
    /\ UNCHANGED <<pipe, stream, buffer, result_text, events, apc, cbFailAt, cut,
                   histVars, streamVars>>
    /\ UNCHANGED utilVars

\* chunk = await process.stdout.read(64 * 1024) returns n bytes; buffer += chunk;
\* the complete lines of the buffer are processed.
AdapterRead(n) ==
    /\ apc = "reading"
    /\ n \in 1..Min(Len(pipe), READ_SIZE)
    /\ LET chunk == SubSeq(pipe, 1, n)
           d == DrainBuffer(buffer \o chunk,
                            RunState(result_text, events, FALSE), cbFailAt)
       IN  /\ pipe' = SubSeq(pipe, n + 1, Len(pipe))
           /\ buffer' = d.buffer
           /\ result_text' = d.st.result_text
           /\ events' = d.st.events
           /\ apc' = IF d.st.aborted THEN "waiting" ELSE "reading"
           /\ cut' = (cut \/ (d.buffer # <<>> /\ n < Len(pipe) /\ pipe[n + 1] # LF))
    /\ UNCHANGED <<closed, stream, cbFailAt, histVars, streamVars>>
    /\ UNCHANGED utilVars

\* read() returns b'': the loop ends and the remaining buffer is processed.
AdapterEof ==
    /\ apc = "reading"
    /\ pipe = <<>> /\ closed
    /\ LET st == DrainRest(buffer, RunState(result_text, events, FALSE), cbFailAt)
       IN  /\ result_text' = st.result_text
           /\ events' = st.events
    /\ apc' = "waiting"
    /\ UNCHANGED <<pipe, closed, stream, buffer, cbFailAt, cut, histVars, streamVars>>
    /\ UNCHANGED utilVars

\* await process.wait(); stderr = await process.stderr.read(); return
AdapterReturn ==
    /\ apc = "waiting"
    /\ closed
    /\ apc' = "returned"
    /\ UNCHANGED <<pipe, closed, stream, buffer, result_text, events, cbFailAt, cut,
                   histVars, streamVars>>
    /\ UNCHANGED utilVars

AdapterInit ==
    /\ HistIdle /\ StreamIdle /\ UtilIdle
    /\ pipe = <<>>
    /\ closed = FALSE
    /\ stream = <<>>
    /\ buffer = <<>>
    /\ result_text = <<>>
    /\ events = <<>>
    /\ apc = "reading"
    /\ cbFailAt \in 0..MaxFail
    /\ cut = FALSE

AdapterNext ==
    \/ \E l \in WireLines : ProcWriteLine(l)
    \/ \E l \in WireLines : ProcWriteTail(l)
    \/ ProcClose
    \/ \E n \in 1..Len(pipe) : AdapterRead(n)
    \/ AdapterEof
    \/ AdapterReturn

AdapterSpec == AdapterInit /\ [][AdapterNext]_vars

-----------------------------------------------------------------------------
(* Spec: one streaming request on either endpoint, the keep-alive ticker   *)
(* of the main endpoint, the clock and the client.  The logs start as      *)
(* earlier requests left them.                                             *)

HISTORY_LIMIT == 100
PROMPT_LOAD == 20
PROMPT_WINDOW == 10
DRAW_PROMPT_LOAD == 10
DRAW_PROMPT_WINDOW == 6

Bots == {"main", "draw"}
\* Both endpoints on one log.
IdentityOfMain(b) == WEB_USER_ID

\* The identity whose log an endpoint's save_message calls name.
IdentityOf(b) == IF b = "main" THEN WEB_USER_ID ELSE DRAW_BOT_ID

\* The lines the assistant writes on stdout in this specification, already
\* split and decoded (LineOutcome of the line's bytes).
EventLine(e) == [kind |-> "event", event |-> e]
RaiseLine == [kind |-> "raise", event |-> NoEvent]
\* The last is "[ACTION:check_inbox]" and nothing else.
AnswerTexts == { Plain(MAX_SSE_CHUNK), Plain(MAX_SSE_CHUNK + 1),
                 Cat(Run("CI", 1), Run("RB", 1)) }
StdoutLines ==
    { EventLine(InitEvent),
      EventLine(ToolUseEvent(Plain(BigName))),
      EventLine(ToolResultEvent(Cat(Plain(BRIEF_LONG), Run("NL", 1)))),
      EventLine(AssistantEvent(<<TextBlock, ToolUseBlock(Plain(4)),
                                 ToolResultBlock(Plain(1), TRUE), ToolUseBlock(Plain(5))>>)),
      EventLine(DeltaEvent(Plain(1))),
      EventLine(OtherEvent),
      RaiseLine }
    \cup { EventLine(ResultEvent(t)) : t \in AnswerTexts }
ExitCodes == {0, 1}
StderrTexts == { <<>>, Cat(Run("NL", 1), Plain(ERROR_PREFIX)) }
Bodies == {"invalid", "empty", "message"}
\* MEMORY.md / the draw bot profile: no such file, a file that cannot be read,
\* an empty file, a file with text.
MemoryFiles == {"absent", "unreadable", "empty", "text"}
MemoryContent(memory) == IF memory = "text" THEN Plain(3) ELSE <<>>

\* A response.write: what was written, how, and whether it reached the client.
WriteRec(kind, via, given, d, size, ok) ==
    [kind |-> kind, via |-> via, given |-> given, d |-> d, size |-> size, ok |-> ok]
PingWrite      == WriteRec("ping", "raw", NoDict, NoDict, 0, connected)
SseWrite(d)    == WriteRec("data", "sse", d, SseFrame(d), DumpsLen(SseFrame(d)), connected)
JsonWrite(d)   == WriteRec("data", "raw", NoDict, d, DumpsLen(d), connected)
ErrorWrite(m)  == WriteRec("data", "raw", NoDict, ErrorDict(m), ErrorRawLen(m), connected)
DoneWrite      == WriteRec("data", "raw", NoDict, DoneDict, DoneRawLen, connected)

\* A handler without the finally block: it returns as the try statement is left.
AfterTryNoFinally(b) == "returned"

\* The handler's position once the try statement is left: the finally block
\* of handle_message_stream, the return of handle_draw_bot_stream.
AfterTry(b) == IF b = "main" THEN "finally" ELSE "returned"

\* The handler's position once the last frame of the answer is written: the
\* done frame of handle_message_stream, the return of handle_draw_bot_stream.
AfterAnswerNoDone(b) == AfterTry(b)
AfterAnswer(b) == IF b = "main" THEN "done" ELSE "returned"

\* A handler that goes on after the error frame of a failed run.
AfterErrorNoReturn(b) == AfterAnswer(b)

\* The handler's position once the error frame of a failed run is written:
\* `return response` leaves the try statement.
AfterError(b) == AfterTry(b)

\* The exceptions the try block of a handler meets besides a lost connection:
\* request.json() on a body that is no JSON, msg['role'] on a log line that
\* holds no turn, create_subprocess_exec on a prompt longer than the system
\* takes as an argument, stderr.decode() on bytes that are no UTF-8.
Exceptions == {"JSONDecodeError", "TypeError", "OSError", "UnicodeDecodeError"}
Disconnects == {"ConnectionResetError", "BrokenPipeError"}

\* str(e)
ExcMessage(exc) ==
    CASE exc = "JSONDecodeError" -> Plain(20)
      [] exc = "TypeError" -> Plain(33)
      [] exc = "OSError" -> Plain(27)
      [] OTHER -> Plain(40)

\* A handler whose only except clause is the one for lost connections.
ExceptClauseDisconnectOnly(exc) == IF exc \in Disconnects THEN "disconnect" ELSE "none"

\* The except clause that takes an exception raised in the try block:
\* `except (ConnectionResetError, BrokenPipeError)`, then `except Exception`.
ExceptClause(exc) == IF exc \in Disconnects THEN "disconnect" ELSE "general"

\* What a handler does with an exception raised in its try block: the frames
\* it writes and its position afterwards.
Raise(b, exc) ==
    [writes |-> IF ExceptClause(exc) = "general"
                THEN <<ErrorWrite(ErrorMsg(ExcMessage(exc)))>> ELSE <<>>,
     hpc    |-> IF ExceptClause(exc) = "none" THEN "raised" ELSE AfterTry(b)]

\* history[-window:] of the loaded history
RecentHistory(h, user_id, load, window) ==
    PyLastN(LoadHistory(h, user_id, load), window)

\* msg['role'] or msg['content'] raises
HistoryBlockRaises(h, user_id, load, window) ==
    LET recent == RecentHistory(h, user_id, load, window)
    IN  \E i \in 1..Len(recent) : ~({"role", "content"} \subseteq DOMAIN recent[i])

\* for msg in history[-window:]: f"{msg['role']}: {msg['content']}"
HistoryBlock(h, user_id, load, window) ==
    LET recent == RecentHistory(h, user_id, load, window)
    IN  [i \in 1..Len(recent) |-> <<recent[i].role, recent[i].content>>]

BuildPromptRaises(b, h) ==
    IF b = "main"
    THEN HistoryBlockRaises(h, IdentityOf(b), PROMPT_LOAD, PROMPT_WINDOW)
    ELSE HistoryBlockRaises(h, IdentityOf(b), DRAW_PROMPT_LOAD, DRAW_PROMPT_WINDOW)

\* build_prompt / build_draw_bot_prompt: the parts, in the order joined.  The
\* memory block is appended whenever the file was read, whatever it holds.
BuildPrompt(b, h, message, memory) ==
    LET hist == IF b = "main"
                THEN HistoryBlock(h, IdentityOf(b), PROMPT_LOAD, PROMPT_WINDOW)
                ELSE HistoryBlock(h, IdentityOf(b), DRAW_PROMPT_LOAD, DRAW_PROMPT_WINDOW)
    IN  <<[part |-> "system_instructions", lines |-> <<>>]>>
        \o (IF memory \in {"empty", "text"}
            THEN <<[part |-> IF b = "main" THEN "memory" ELSE "draw_bot_profile",
                    lines |-> <<MemoryContent(memory)>>]>>
            ELSE <<>>)
        \o (IF b = "draw" THEN <<[part |-> "behavior", lines |-> <<>>]>> ELSE <<>>)
        \o (IF hist # <<>> THEN <<[part |-> "conversation_history", lines |-> hist]>>
            ELSE <<>>)
        \o <<[part |-> "user_message", lines |-> <<message>>]>>

\* await response.prepare(request); the locals; asyncio.create_task(keep_alive_task())
HandleStart(b) ==
    /\ hpc = "idle"
    /\ hpc' = "request"
    /\ bot' = b
    /\ now' = 0
    /\ connected' = TRUE
    /\ writes' = <<>>
    /\ lastWrite' = 0
    /\ keep_alive_active' = (b = "main")
    /\ last_event_time' = 0
    /\ tpc' = IF b = "main" THEN "sleeping" ELSE "none"
    /\ wakeAt' = KEEPALIVE_SLEEP
    /\ user_message' = <<>>
    /\ returncode' = NoReturnCode
    /\ stderr_text' = <<>>
    /\ result' = <<>>
    /\ result_text' = <<>>
    /\ events' = <<>>
    /\ chunk_i' = 0
    /\ prompt' = <<>>
    /\ fed' = 0
    /\ UNCHANGED <<histVars, pipe, closed, stream, buffer, apc, cbFailAt, cut>>
    /\ UNCHANGED utilVars

\* data = await request.json(); user_message = ...strip(); the empty-message
\* reply; build_prompt.
ParseBody(body, memory) ==
    /\ hpc = "request"
    /\ \/ /\ body = "invalid"       \* request.json() raises
          /\ memory = "absent"
          /\ writes' = writes \o Raise(bot, "JSONDecodeError").writes
          /\ lastWrite' = IF connected THEN now ELSE lastWrite
          /\ hpc' = Raise(bot, "JSONDecodeError").hpc
          /\ UNCHANGED <<user_message, prompt>>
       \/ /\ body = "empty"
          /\ memory = "absent"
          /\ writes' = Append(writes, ErrorWrite(Plain(19)))
          /\ lastWrite' = IF connected THEN now ELSE lastWrite
          /\ hpc' = AfterTry(bot)
          /\ UNCHANGED <<user_message, prompt>>
       \/ /\ body = "message"
          /\ user_message' = Plain(5)
          /\ IF BuildPromptRaises(bot, history)
             THEN /\ writes' = writes \o Raise(bot, "TypeError").writes
                  /\ lastWrite' = IF connected THEN now ELSE lastWrite
                  /\ hpc' = Raise(bot, "TypeError").hpc
                  /\ UNCHANGED prompt
             ELSE /\ prompt' = BuildPrompt(bot, history, Plain(5), memory)
                  /\ hpc' = "spawn"
                  /\ UNCHANGED <<writes, lastWrite>>
    /\ UNCHANGED <<histVars, adapterVars, bot, now, connected, keep_alive_active,
                   last_event_time, tpc, wakeAt, returncode, stderr_text, result,
                   chunk_i, fed>>
    /\ UNCHANGED utilVars

\* process = await asyncio.create_subprocess_exec(*cmd, ...); it raises when
\* the system refuses the command.
Spawn(started) ==
    /\ hpc = "spawn"
    /\ prompt' = <<>>
    /\ IF started
       THEN /\ hpc' = "run"
            /\ UNCHANGED <<writes, lastWrite>>
       ELSE /\ writes' = writes \o Raise(bot, "OSError").writes
            /\ lastWrite' = IF connected THEN now ELSE lastWrite
            /\ hpc' = Raise(bot, "OSError").hpc
    /\ UNCHANGED <<histVars, adapterVars, bot, now, connected,
                   keep_alive_active, last_event_time, tpc, wakeAt, user_message,
                   returncode, stderr_text, result, chunk_i, fed>>
    /\ UNCHANGED utilVars

\* The adapter takes one line of stdout: a line of the read loop (rest = FALSE)
\* or the unterminated last line after end of stream (rest = TRUE).  The event
\* goes to on_event = send_event, which writes one frame per block it reports;
\* a write raises when the client is gone, the adapter's outer except catches
\* that and the reading stops.
AdapterLine(o, rest) ==
    /\ hpc = "run"
    /\ fed < MaxEvents
    /\ fed' = fed + 1
    /\ IF o.kind = "raise"
       THEN /\ hpc' = "wait"
            /\ UNCHANGED <<result_text, events, writes, lastWrite, last_event_time>>
       ELSE LET out == SendEvent(bot, o.event) IN
            /\ result_text' = IF rest THEN ExtractRest(result_text, o.event)
                              ELSE ExtractLoop(result_text, o.event)
            /\ events' = Append(events, o.event)
            /\ writes' = writes \o [i \in 1..(IF connected THEN Len(out)
                                                ELSE Min(Len(out), 1))
                                       |-> SseWrite(out[i])]
            /\ lastWrite' = IF out # <<>> /\ connected THEN now ELSE lastWrite
            /\ last_event_time' = IF out # <<>> /\ connected /\ bot = "main"
                                  THEN now ELSE last_event_time
            /\ hpc' = IF rest \/ (out # <<>> /\ ~connected) THEN "wait" ELSE "run"
    /\ UNCHANGED <<histVars, pipe, closed, stream, buffer, apc, cbFailAt, cut, bot, now,
                   connected, keep_alive_active, tpc, wakeAt, user_message,
                   returncode, stderr_text, result, chunk_i, prompt>>
    /\ UNCHANGED utilVars

\* read() returns b'' and the buffer is empty.
AdapterEnd ==
    /\ hpc = "run"
    /\ hpc' = "wait"
    /\ UNCHANGED <<histVars, adapterVars, bot, now, connected, writes, lastWrite,
                   keep_alive_active, last_event_time, tpc, wakeAt, user_message,
                   returncode, stderr_text, result, chunk_i, prompt, fed>>
    /\ UNCHANGED utilVars

\* process.wait() and stderr.read() complete, call_claude_streaming returns, and
\* the handler goes on to its next await: the error frame, or the cleaning, the
\* two save_message calls and the first frame of the answer.
ProcessExit(rc, err, decodes) ==
    /\ hpc = "wait"
    /\ returncode' = IF decodes THEN rc ELSE returncode
    /\ stderr_text' = IF decodes THEN err ELSE stderr_text
    /\ IF ~decodes                  \* stderr.decode() raises
       THEN /\ err # <<>>
            /\ writes' = writes \o Raise(bot, "UnicodeDecodeError").writes
            /\ hpc' = Raise(bot, "UnicodeDecodeError").hpc
            /\ UNCHANGED <<history, result, chunk_i>>
       ELSE IF rc # 0 \/ result_text = <<>>
       THEN /\ writes' = Append(writes,
                   ErrorWrite(ErrorMsg(IF err # <<>> THEN err ELSE Plain(11))))
            /\ hpc' = AfterError(bot)
            /\ UNCHANGED <<history, result, chunk_i>>
       ELSE LET res == CleanResponse(result_text)
                frames == FinalFrames(res)
            IN  /\ result' = res
                /\ history' = SaveMessage(
                       SaveMessage(history, IdentityOf(bot), "user", user_message, TRUE),
                       IdentityOf(bot), "assistant", res, TRUE)
                /\ writes' = Append(writes, JsonWrite(frames[1]))
                /\ chunk_i' = MAX_SSE_CHUNK
                /\ hpc' = IF ~connected THEN AfterTry(bot)
                          ELSE IF Len(frames) > 1 THEN "respond"
                          ELSE AfterAnswer(bot)
    /\ lastWrite' = IF connected THEN now ELSE lastWrite
    /\ UNCHANGED <<lastRead, adapterVars, bot, now, connected, keep_alive_active,
                   last_event_time, tpc, wakeAt, user_message, prompt, fed>>
    /\ UNCHANGED utilVars

\* The next pass of `for i in range(0, len(result), MAX_SSE_CHUNK)`.
WriteChunk ==
    /\ hpc = "respond"
    /\ writes' = Append(writes, JsonWrite(ChunkFrames(result, chunk_i)[1]))
    /\ lastWrite' = IF connected THEN now ELSE lastWrite
    /\ chunk_i' = chunk_i + MAX_SSE_CHUNK
    /\ hpc' = IF ~connected THEN AfterTry(bot)
              ELSE IF chunk_i + MAX_SSE_CHUNK < TextLen(result) THEN "respond"
              ELSE AfterAnswer(bot)
    /\ UNCHANGED <<histVars, adapterVars, bot, now, connected, keep_alive_active,
                   last_event_time, tpc, wakeAt, user_message, returncode,
                   stderr_text, result, prompt, fed>>
    /\ UNCHANGED utilVars

\* await response.write(b'data: {"type":"done"}\n\n')
WriteDone ==
    /\ hpc = "done"
    /\ writes' = Append(writes, DoneWrite)
    /\ lastWrite' = IF connected THEN now ELSE lastWrite
    /\ hpc' = AfterTry(bot)
    /\ UNCHANGED <<histVars, adapterVars, bot, now, connected, keep_alive_active,
                   last_event_time, tpc, wakeAt, user_message, returncode,
                   stderr_text, result, chunk_i, prompt, fed>>
    /\ UNCHANGED utilVars

\* finally: keep_alive_active[0] = False; ping_task.cancel(); await ping_task
Finally ==
    /\ hpc = "finally"
    /\ keep_alive_active' = FALSE
    /\ tpc' = IF tpc = "sleeping" THEN "cancelling" ELSE tpc
    /\ hpc' = "joining"
    /\ UNCHANGED <<histVars, adapterVars, bot, now, connected, writes, lastWrite,
                   last_event_time, wakeAt, user_message, returncode, stderr_text,
                   result, chunk_i, prompt, fed>>
    /\ UNCHANGED utilVars

\* The cancelled task takes CancelledError at its await and ends.
TickerCancelled ==
    /\ tpc = "cancelling"
    /\ tpc' = "cancelled"
    /\ UNCHANGED <<histVars, adapterVars, hpc, bot, now, connected, writes,
                   lastWrite, keep_alive_active, last_event_time, wakeAt,
                   user_message, returncode, stderr_text, result, chunk_i, prompt, fed>>
    /\ UNCHANGED utilVars

\* `await ping_task` ends; return response
Join ==
    /\ hpc = "joining"
    /\ tpc \in {"cancelled", "stopped"}
    /\ hpc' = "returned"
    /\ UNCHANGED <<histVars, adapterVars, bot, now, connected, writes, lastWrite,
                   keep_alive_active, last_event_time, tpc, wakeAt, user_message,
                   returncode, stderr_text, result, chunk_i, prompt, fed>>
    /\ UNCHANGED utilVars

\* keep_alive_task after `await asyncio.sleep(5)`
TickerWake ==
    /\ tpc = "sleeping"
    /\ now = wakeAt
    /\ IF keep_alive_active /\ now - last_event_time >= KEEPALIVE_QUIET
       THEN /\ writes' = Append(writes, PingWrite)
            /\ IF connected
               THEN /\ last_event_time' = now
                    /\ lastWrite' = now
                    /\ tpc' = "sleeping"
                    /\ wakeAt' = now + KEEPALIVE_SLEEP
               ELSE /\ tpc' = "stopped"       \* except Exception: break
                    /\ UNCHANGED <<last_event_time, lastWrite, wakeAt>>
       ELSE /\ tpc' = IF keep_alive_active THEN "sleeping" ELSE "stopped"
            /\ wakeAt' = IF keep_alive_active THEN now + KEEPALIVE_SLEEP ELSE wakeAt
            /\ UNCHANGED <<writes, last_event_time, lastWrite>>
    /\ UNCHANGED <<histVars, adapterVars, hpc, bot, now, connected, keep_alive_active,
                   user_message, returncode, stderr_text, result, chunk_i, prompt, fed>>
    /\ UNCHANGED utilVars

\* The handler is suspended in an await that takes time.
Awaiting == hpc \in {"request", "spawn", "run", "wait", "respond", "done"}

\* One unit of time passes; a sleep that is over ends first.
Tick ==
    /\ Awaiting
    /\ now < MaxTime
    /\ ~(tpc = "sleeping" /\ wakeAt <= now)
    /\ now' = now + 1
    /\ UNCHANGED <<histVars, adapterVars, hpc, bot, connected, writes, lastWrite,
                   keep_alive_active, last_event_time, tpc, wakeAt, user_message,
                   returncode, stderr_text, result, chunk_i, prompt, fed>>
    /\ UNCHANGED utilVars

\* The client goes away.
ClientDisconnect ==
    /\ Awaiting
    /\ connected
    /\ connected' = FALSE
    /\ UNCHANGED <<histVars, adapterVars, hpc, bot, now, writes, lastWrite,
                   keep_alive_active, last_event_time, tpc, wakeAt, user_message,
                   returncode, stderr_text, result, chunk_i, prompt, fed>>
    /\ UNCHANGED utilVars

\* handle_history: GET /api/history, once the streaming request is over.
HandleHistory ==
    /\ hpc = "returned"
    /\ lastRead' = [valid |-> TRUE, user_id |-> WEB_USER_ID, limit |-> HISTORY_LIMIT,
                    lines |-> history[WEB_USER_ID].lines,
                    messages |-> LoadHistory(history, WEB_USER_ID, HISTORY_LIMIT)]
    /\ UNCHANGED <<history, adapterVars, streamVars>>
    /\ UNCHANGED utilVars

\* The logs before the request: none yet, or one turn of each endpoint.
PriorTurn(user_id, h) ==
    SaveMessage(SaveMessage(h, user_id, "user", Plain(5), TRUE),
                user_id, "assistant", Plain(2), TRUE)
\* A log whose only line is a JSON value that is no turn.
NoTurnLog(user_id, h) == [h EXCEPT ![user_id] = [exists |-> TRUE, lines |-> <<ScalarLine>>]]
PriorLogs ==
    { [id \in Identities |-> NoFile],
      PriorTurn(DRAW_BOT_ID, PriorTurn(WEB_USER_ID, [id \in Identities |-> NoFile])),
      NoTurnLog(WEB_USER_ID, [id \in Identities |-> NoFile]) }

Init ==
    /\ history \in PriorLogs
    /\ lastRead = NoRead
    /\ AdapterIdle /\ StreamIdle /\ UtilIdle

Next ==
    \/ \E b \in Bots : HandleStart(b)
    \/ \E body \in Bodies, memory \in MemoryFiles : ParseBody(body, memory)
    \/ \E started \in BOOLEAN : Spawn(started)
    \/ \E o \in StdoutLines, rest \in BOOLEAN : AdapterLine(o, rest)
    \/ AdapterEnd
    \/ \E rc \in ExitCodes, err \in StderrTexts, decodes \in BOOLEAN :
          ProcessExit(rc, err, decodes)
    \/ WriteChunk
    \/ WriteDone
    \/ Finally
    \/ TickerCancelled
    \/ Join
    \/ TickerWake
    \/ Tick
    \/ ClientDisconnect
    \/ HandleHistory

Spec == Init /\ [][Next]_vars

-----------------------------------------------------------------------------
(* ImageSpec: handle_image.  A path is the sequence of its segments, a     *)
(* segment the sequence of its characters; str(path) is "/" and the        *)
(* segments joined by "/".                                                 *)

SegRepo        == <<"r">>          \* the name of the repository root
SegRepoSibling == <<"r", "x">>     \* a name that begins with that name
SegDownloads   == <<"d">>          \* the name of the downloads directory
SegOther       == <<"o">>
SegFile        == <<"f">>
DotDot         == <<".", ".">>
SegNames == {SegRepo, SegRepoSibling, SegDownloads, SegOther, SegFile, DotDot}

\* Path(SCRIPT_DIR.parent).resolve() and Path(DOWNLOADS_DIR).resolve(), the
\* latter set by THINX_DOWNLOADS to a directory outside the repository.
REPO_ROOT == <<SegRepo>>
DOWNLOADS_DIR == <<SegDownloads>>
allowed_roots == <<DOWNLOADS_DIR, REPO_ROOT>>

\* Path(path).resolve() of an absolute path without symbolic links.
RECURSIVE ResolveInto(_, _)
ResolveInto(done, rest) ==
    IF rest = <<>> THEN done
    ELSE IF Head(rest) = DotDot
         THEN ResolveInto(SubSeq(done, 1, Len(done) - 1), Tail(rest))
         ELSE ResolveInto(Append(done, Head(rest)), Tail(rest))
Resolve(segs) == ResolveInto(<<>>, segs)

\* str(path)
RECURSIVE JoinSegs(_)
JoinSegs(segs) ==
    IF segs = <<>> THEN <<>> ELSE <<"/">> \o Head(segs) \o JoinSegs(Tail(segs))
PathStr(segs) == IF segs = <<>> THEN <<"/">> ELSE JoinSegs(segs)

\* s.startswith(prefix)
StartsWith(s, prefix) == Len(prefix) <= Len(s) /\ SubSeq(s, 1, Len(prefix)) = prefix

\* any(str(path).startswith(str(root)) for root in allowed_roots)
Allowed(path) ==
    \E i \in 1..Len(allowed_roots) :
        StartsWith(PathStr(path), PathStr(allowed_roots[i]))

\* path.exists(): a file, a directory above a file, or a root or a directory
\* above it.
PathExists(files, path) ==
    \/ \E f \in files : StartsWith(f, path)
    \/ \E i \in 1..Len(allowed_roots) : StartsWith(allowed_roots[i], path)

\* The response of handle_image.
ImageResponse(files, q) ==
    IF ~q.given THEN [status |-> 400, served |-> <<>>]
    ELSE LET path == Resolve(q.segs) IN
         IF ~Allowed(path) \/ ~PathExists(files, path)
         THEN [status |-> 404, served |-> <<>>]
         ELSE [status |-> 200, served |-> path]

MaxSegs == 3
ImageFiles ==
    { <<SegRepo, SegFile>>, <<SegRepoSibling, SegFile>>,
      <<SegDownloads, SegFile>>, <<SegOther, SegFile>> }
ImageQueries ==
    {NoQuery} \cup
    { [given |-> TRUE, segs |-> sg] :
        sg \in UNION { [1..n -> SegNames] : n \in 1..MaxSegs } }

\* GET /api/image?path=...
HandleImage(q) ==
    /\ ipc = "idle"
    /\ ipc' = "done"
    /\ img_path' = q
    /\ img_response' = ImageResponse(img_files, q)
    /\ UNCHANGED <<img_files, histVars, adapterVars, streamVars, uploadVars, emailVars, laterVars>>

ImageInit ==
    /\ HistIdle /\ AdapterIdle /\ StreamIdle /\ UploadIdle /\ EmailIdle /\ LaterIdle
    /\ ipc = "idle"
    /\ img_files \in SUBSET ImageFiles
    /\ img_path = NoQuery
    /\ img_response = NoImageResponse

ImageNext == \E q \in ImageQueries : HandleImage(q)

ImageSpec == ImageInit /\ [][ImageNext]_vars

-----------------------------------------------------------------------------
(* UploadSpec: handle_upload.  A chunk is known by its length; the file is *)
(* the sequence of the chunks written to it.                               *)

UPLOAD_LIMIT == 20971520

\* A comparison that rejects an upload of exactly the limit.
OverLimitAtLimit(size) == size >= UPLOAD_LIMIT

\* if size > 20 * 1024 * 1024
OverLimit(size) == size > UPLOAD_LIMIT

MaxChunks == 3
ChunkSizes == {1, 8192, UPLOAD_LIMIT - 8192, UPLOAD_LIMIT - 1, UPLOAD_LIMIT}

\* The first part of the multipart body: none, a part of another name, a
\* part "file" without a filename, a part "file" with one.
UploadFields == {"none", "other", "unnamed", "file"}

RECURSIVE SumSeq(_)
SumSeq(q) == IF q = <<>> THEN 0 ELSE Head(q) + SumSeq(Tail(q))

\* reader.next(), the field check, the file name, open(file_path, 'wb')
UploadField(field) ==
    /\ upc = "idle"
    /\ IF field \in {"none", "other"}
       THEN /\ up_response' = [status |-> 400, size |-> 0]
            /\ upc' = "done"
            /\ UNCHANGED up_file
       ELSE IF field = "unnamed"      \* filename is None: the except clause
       THEN /\ up_response' = [status |-> 500, size |-> 0]
            /\ upc' = "done"
            /\ UNCHANGED up_file
       ELSE /\ up_file' = [exists |-> TRUE, data |-> <<>>]
            /\ upc' = "reading"
            /\ UNCHANGED up_response
    /\ UNCHANGED <<up_received, up_size>>
    /\ UNCHANGED <<histVars, adapterVars, streamVars, imageVars, emailVars, laterVars>>

\* One pass of the loop with a chunk of n bytes.
UploadChunk(n) ==
    /\ upc = "reading"
    /\ Len(up_received) < MaxChunks
    /\ up_received' = Append(up_received, n)
    /\ up_size' = up_size + n
    /\ IF OverLimit(up_size + n)
       THEN /\ up_file' = NoUploadFile              \* file_path.unlink()
            /\ up_response' = [status |-> 413, size |-> 0]
            /\ upc' = "done"
       ELSE /\ up_file' = [up_file EXCEPT !.data = Append(@, n)]
            /\ UNCHANGED <<up_response, upc>>
    /\ UNCHANGED <<histVars, adapterVars, streamVars, imageVars, emailVars, laterVars>>

\* read_chunk() returns b'': the loop ends, the file is closed, the reply.
UploadEof ==
    /\ upc = "reading"
    /\ up_response' = [status |-> 200, size |-> up_size]
    /\ upc' = "done"
    /\ UNCHANGED <<up_received, up_size, up_file>>
    /\ UNCHANGED <<histVars, adapterVars, streamVars, imageVars, emailVars, laterVars>>

\* read_chunk() raises (the client went away): the except clause.
UploadReadError ==
    /\ upc = "reading"
    /\ up_response' = [status |-> 500, size |-> 0]
    /\ upc' = "done"
    /\ UNCHANGED <<up_received, up_size, up_file>>
    /\ UNCHANGED <<histVars, adapterVars, streamVars, imageVars, emailVars, laterVars>>

UploadInit ==
    /\ HistIdle /\ AdapterIdle /\ StreamIdle /\ ImageIdle /\ EmailIdle /\ LaterIdle
    /\ UploadIdle

UploadNext ==
    \/ \E field \in UploadFields : UploadField(field)
    \/ \E n \in ChunkSizes : UploadChunk(n)
    \/ UploadEof
    \/ UploadReadError

UploadSpec == UploadInit /\ [][UploadNext]_vars

-----------------------------------------------------------------------------
(* EmailSpec: send_email and send_calendar_invite against an SMTP server   *)
(* whose every operation can fail.                                         *)

\* os.getenv(...) of a credential: None, '' or a value.
CredValues == {"unset", "empty", "set"}
EmailFns == {"send_email", "send_calendar_invite"}

\* not (not GMAIL_ADDRESS or not GMAIL_APP_PASSWORD)
Configured(call) == call.address = "set" /\ call.password = "set"

\* What an operation raises: nothing, smtplib.SMTPAuthenticationError, or
\* another exception.
NoExc == "none"
AuthExc == "auth"
OtherExc == "other"

Returned(success, message) ==
    [returned |-> TRUE, raised |-> FALSE, success |-> success, message |-> message]
Raised == [returned |-> FALSE, raised |-> TRUE, success |-> FALSE, message |-> ""]

\* Only the first except clause.
EmailExceptAuthOnly(fn, exc) ==
    IF exc = AuthExc THEN Returned(FALSE, "Authentication failed") ELSE Raised

\* The two except clauses of the try statement.
EmailExcept(fn, exc) ==
    IF exc = AuthExc THEN Returned(FALSE, "Authentication failed")
    ELSE Returned(FALSE, IF fn = "send_email" THEN "Failed to send email"
                         ELSE "Failed to send calendar invite")

\* The function ends with result r.
EmailEnds(r) ==
    /\ em_result' = r
    /\ epc' = IF r.raised THEN "raised" ELSE "returned"

SmtpOp(op, exc) == [op |-> op, exc |-> exc]

\* The exception on its way out of the with block, if any.
Pending ==
    IF \E i \in 1..Len(em_smtp) : em_smtp[i].exc # NoExc
    THEN em_smtp[CHOOSE i \in 1..Len(em_smtp) : em_smtp[i].exc # NoExc].exc
    ELSE NoExc

\* The call and the credentials check.  flag is html of send_email, all_day
\* of send_calendar_invite.
EmailCall(fn, address, password, flag) ==
    /\ epc = "idle"
    /\ em_call' = [fn |-> fn, address |-> address, password |-> password, flag |-> flag]
    /\ IF Configured(em_call')
       THEN epc' = "building" /\ UNCHANGED em_result
       ELSE EmailEnds(Returned(FALSE, "Email credentials not configured"))
    /\ UNCHANGED em_smtp
    /\ UNCHANGED <<histVars, adapterVars, streamVars, imageVars, uploadVars, laterVars>>

\* The message is built (for an invite, after the iCalendar text, which is
\* formatted from datetime arguments before the try statement).
EmailBuild(exc) ==
    /\ epc = "building"
    /\ IF exc = NoExc
       THEN epc' = "connecting" /\ UNCHANGED em_result
       ELSE EmailEnds(EmailExcept(em_call.fn, exc))
    /\ UNCHANGED <<em_call, em_smtp>>
    /\ UNCHANGED <<histVars, adapterVars, streamVars, imageVars, uploadVars, laterVars>>

\* smtplib.SMTP_SSL("smtp.gmail.com", 465)
SmtpConnect(exc) ==
    /\ epc = "connecting"
    /\ em_smtp' = Append(em_smtp, SmtpOp("connect", exc))
    /\ IF exc = NoExc
       THEN epc' = "login" /\ UNCHANGED em_result
       ELSE EmailEnds(EmailExcept(em_call.fn, exc))
    /\ UNCHANGED em_call
    /\ UNCHANGED <<histVars, adapterVars, streamVars, imageVars, uploadVars, laterVars>>

\* server.login(GMAIL_ADDRESS, GMAIL_APP_PASSWORD)
SmtpLogin(exc) ==
    /\ epc = "login"
    /\ em_smtp' = Append(em_smtp, SmtpOp("login", exc))
    /\ epc' = IF exc = NoExc THEN "sendmail" ELSE "closing"
    /\ UNCHANGED <<em_call, em_result>>
    /\ UNCHANGED <<histVars, adapterVars, streamVars, imageVars, uploadVars, laterVars>>

\* server.sendmail(GMAIL_ADDRESS, to_address, msg.as_string())
SmtpSendmail(exc) ==
    /\ epc = "sendmail"
    /\ em_smtp' = Append(em_smtp, SmtpOp("sendmail", exc))
    /\ epc' = "closing"
    /\ UNCHANGED <<em_call, em_result>>
    /\ UNCHANGED <<histVars, adapterVars, streamVars, imageVars, uploadVars, laterVars>>

\* The end of the with block (QUIT, which can fail too), then the return
\* statement or the except clause.
SmtpQuit(exc) ==
    /\ epc = "closing"
    /\ em_smtp' = Append(em_smtp, SmtpOp("quit", exc))
    /\ LET out == IF exc # NoExc THEN exc ELSE Pending IN
       IF out = NoExc
       THEN EmailEnds(Returned(TRUE, IF em_call.fn = "send_email" THEN "Email sent"
                                     ELSE "Calendar invite sent"))
       ELSE EmailEnds(EmailExcept(em_call.fn, out))
    /\ UNCHANGED em_call
    /\ UNCHANGED <<histVars, adapterVars, streamVars, imageVars, uploadVars, laterVars>>

EmailInit ==
    /\ HistIdle /\ AdapterIdle /\ StreamIdle /\ ImageIdle /\ UploadIdle /\ LaterIdle
    /\ EmailIdle

EmailNext ==
    \/ \E fn \in EmailFns, a \in CredValues, pw \in CredValues, flag \in BOOLEAN :
          EmailCall(fn, a, pw, flag)
    \/ \E exc \in {NoExc, OtherExc} : EmailBuild(exc)
    \/ \E exc \in {NoExc, OtherExc} : SmtpConnect(exc)
    \/ \E exc \in {NoExc, AuthExc, OtherExc} : SmtpLogin(exc)
    \/ \E exc \in {NoExc, OtherExc} : SmtpSendmail(exc)
    \/ \E exc \in {NoExc, OtherExc} : SmtpQuit(exc)

EmailSpec == EmailInit /\ [][EmailNext]_vars

-----------------------------------------------------------------------------
(* CleanSpec: "Clean response" applied to every text of at most MaxText    *)
(* characters and fragments.                                               *)

MaxText == 4
TextChars == {"CI", "DG", "RB", "SE", "NL", "SP", "x"}

RECURSIVE TextOf(_)
TextOf(chars) ==
    IF chars = <<>> THEN <<>> ELSE Cat(Run(Head(chars), 1), TextOf(Tail(chars)))

ResultTexts == { TextOf(chars) : chars \in UNION { [1..k -> TextChars] : k \in 0..MaxText } }

\* result = re.sub(...); result = re.sub(...); result = result.strip()
Clean ==
    /\ cpc = "raw"
    /\ clean_result' = CleanResponse(raw_result)
    /\ cpc' = "cleaned"
    /\ UNCHANGED <<raw_result, histVars, adapterVars, streamVars, imageVars,
                   uploadVars, emailVars, turnVars, pipeVars>>

CleanInit ==
    /\ HistIdle /\ AdapterIdle /\ StreamIdle
    /\ ImageIdle /\ UploadIdle /\ EmailIdle /\ TurnIdle /\ PipeIdle
    /\ cpc = "raw"
    /\ raw_result \in ResultTexts
    /\ clean_result = <<>>

CleanNext == Clean

CleanSpec == CleanInit /\ [][CleanNext]_vars

-----------------------------------------------------------------------------
(* TurnSpec: MaxRequests requests to /api/message/stream, all for           *)
(* WEB_USER_ID, on one event loop.  A request runs from one await to the   *)
(* next without any other request running in between.                      *)

MaxRequests == 3
Requests == 1..MaxRequests
MessageOf(r) == Plain(r)
AnswerOf(r) == Run("a", r)

\* The statements of handle_message_stream after a given one; ok tells
\* whether the run of the assistant succeeded.
NextStmt(stmt, ok) ==
    CASE stmt = "prepare" -> "json"
      [] stmt = "json" -> "build_prompt"
      [] stmt = "build_prompt" -> "adapter"
      [] stmt = "adapter" -> IF ok THEN "clean" ELSE "write_error"
      [] stmt = "write_error" -> "return_error"
      [] stmt = "clean" -> "save_user"
      [] stmt = "save_user" -> "save_assistant"
      [] stmt = "save_assistant" -> "write_answer"
      [] stmt = "write_answer" -> "write_done"
      [] OTHER -> "return"

Returns == {"return", "return_error"}

\* Every statement hands control to the event loop.
SuspendsEverywhere(stmt) == TRUE

\* The statements that are awaits: response.prepare, request.json,
\* call_claude_streaming and the writes.  save_message is an ordinary call.
Suspends(stmt) ==
    stmt \in {"prepare", "json", "adapter", "write_error", "write_answer", "write_done"}

\* The logs after a statement of request r.
Effect(h, stmt, r) ==
    IF stmt = "save_user" THEN SaveMessage(h, WEB_USER_ID, "user", MessageOf(r), TRUE)
    ELSE IF stmt = "save_assistant"
         THEN SaveMessage(h, WEB_USER_ID, "assistant", AnswerOf(r), TRUE)
         ELSE h

\* Request r completes the statement it was suspended in and runs on to the
\* next statement that suspends, or to its return.
RECURSIVE RunOn(_, _, _, _)
RunOn(h, stmt, r, ok) ==
    LET h2 == Effect(h, stmt, r)
        nx == NextStmt(stmt, ok)
    IN  IF nx \in Returns \/ Suspends(nx) THEN [history |-> h2, at |-> nx]
        ELSE RunOn(h2, nx, r, ok)

Resume(r, ok) ==
    /\ rpc[r] \notin Returns
    /\ ok \/ rpc[r] = "adapter"
    /\ LET to == RunOn(history, rpc[r], r, ok)
       IN  /\ history' = to.history
           /\ rpc' = [rpc EXCEPT ![r] = to.at]
    /\ UNCHANGED <<lastRead, adapterVars, streamVars, imageVars, uploadVars,
                   emailVars, cleanVars, pipeVars>>

TurnInit ==
    /\ history = [id \in Identities |-> NoFile]
    /\ lastRead = NoRead
    /\ AdapterIdle /\ StreamIdle
    /\ ImageIdle /\ UploadIdle /\ EmailIdle /\ CleanIdle /\ PipeIdle
    /\ rpc = [r \in Requests |-> "prepare"]

TurnNext == \E r \in Requests, ok \in BOOLEAN : Resume(r, ok)

TurnSpec == TurnInit /\ [][TurnNext]_vars

-----------------------------------------------------------------------------
(* PipeSpec: call_claude_streaming and a process that writes a finite      *)
(* output to stdout and stderr, in some order, and exits when all of it is *)
(* in the pipes.  A pipe holds a bounded amount of unread data (the kernel *)
(* buffer and the StreamReader's limit); a write to a full pipe blocks.    *)

MaxWrites == 3
MaxCap == 2

RECURSIVE SeqsUpTo(_, _)
SeqsUpTo(S, k) ==
    IF k = 0 THEN {<<>>}
    ELSE LET shorter == SeqsUpTo(S, k - 1)
         IN  shorter \cup {Append(q, x) : q \in shorter, x \in S}

\* The process writes one unit (an event line) to stdout.
ProcWriteStdout ==
    /\ wpc # "idle" /\ ~proc_exited
    /\ proc_todo # <<>> /\ Head(proc_todo) = "out"
    /\ stdout_pipe < pipe_cap.out
    /\ stdout_pipe' = stdout_pipe + 1
    /\ proc_todo' = Tail(proc_todo)
    /\ UNCHANGED <<proc_exited, stderr_pipe, pipe_cap, wpc, on_event_calls, raise_at>>
    /\ UNCHANGED <<histVars, adapterVars, streamVars, imageVars, uploadVars,
                   emailVars, cleanVars, turnVars>>

\* The process writes one unit to stderr.
ProcWriteStderr ==
    /\ wpc # "idle" /\ ~proc_exited
    /\ proc_todo # <<>> /\ Head(proc_todo) = "err"
    /\ stderr_pipe < pipe_cap.err
    /\ stderr_pipe' = stderr_pipe + 1
    /\ proc_todo' = Tail(proc_todo)
    /\ UNCHANGED <<proc_exited, stdout_pipe, pipe_cap, wpc, on_event_calls, raise_at>>
    /\ UNCHANGED <<histVars, adapterVars, streamVars, imageVars, uploadVars,
                   emailVars, cleanVars, turnVars>>

\* All output is in the pipes: the process exits, which closes both.
ProcExits ==
    /\ wpc # "idle" /\ ~proc_exited
    /\ proc_todo = <<>>
    /\ proc_exited' = TRUE
    /\ UNCHANGED <<proc_todo, stdout_pipe, stderr_pipe, pipe_cap, wpc,
                   on_event_calls, raise_at>>
    /\ UNCHANGED <<histVars, adapterVars, streamVars, imageVars, uploadVars,
                   emailVars, cleanVars, turnVars>>

\* chunk = await process.stdout.read(...) returns data; the event is passed to
\* on_event, and an exception it raises leaves the loop by the outer except.
ReadStdout ==
    /\ wpc = "reading"
    /\ stdout_pipe > 0
    /\ stdout_pipe' = stdout_pipe - 1
    /\ on_event_calls' = on_event_calls + 1
    /\ wpc' = IF on_event_calls + 1 = raise_at THEN "waiting" ELSE "reading"
    /\ UNCHANGED <<proc_todo, proc_exited, stderr_pipe, pipe_cap, raise_at>>
    /\ UNCHANGED <<histVars, adapterVars, streamVars, imageVars, uploadVars,
                   emailVars, cleanVars, turnVars>>

\* read() returns b'': `if not chunk: break`
StdoutEof ==
    /\ wpc = "reading"
    /\ stdout_pipe = 0 /\ proc_exited
    /\ wpc' = "waiting"
    /\ UNCHANGED <<proc_todo, proc_exited, stdout_pipe, stderr_pipe, pipe_cap,
                   on_event_calls, raise_at>>
    /\ UNCHANGED <<histVars, adapterVars, streamVars, imageVars, uploadVars,
                   emailVars, cleanVars, turnVars>>

\* await process.wait() returns
WaitReturns ==
    /\ wpc = "waiting"
    /\ proc_exited
    /\ wpc' = "stderr"
    /\ UNCHANGED <<proc_todo, proc_exited, stdout_pipe, stderr_pipe, pipe_cap,
                   on_event_calls, raise_at>>
    /\ UNCHANGED <<histVars, adapterVars, streamVars, imageVars, uploadVars,
                   emailVars, cleanVars, turnVars>>

\* stderr = await process.stderr.read(); return
ReadStderr ==
    /\ wpc = "stderr"
    /\ stderr_pipe' = 0
    /\ wpc' = "returned"
    /\ UNCHANGED <<proc_todo, proc_exited, stdout_pipe, pipe_cap, on_event_calls,
                   raise_at>>
    /\ UNCHANGED <<histVars, adapterVars, streamVars, imageVars, uploadVars,
                   emailVars, cleanVars, turnVars>>

PipeInit ==
    /\ HistIdle /\ AdapterIdle /\ StreamIdle
    /\ ImageIdle /\ UploadIdle /\ EmailIdle /\ CleanIdle /\ TurnIdle
    /\ proc_todo \in SeqsUpTo({"out", "err"}, MaxWrites)
    /\ proc_exited = FALSE
    /\ stdout_pipe = 0
    /\ stderr_pipe = 0
    /\ pipe_cap \in [out : 1..MaxCap, err : 1..MaxCap]
    /\ wpc = "reading"
    /\ on_event_calls = 0
    /\ raise_at \in 0..MaxWrites

PipeNext ==
    \/ ProcWriteStdout
    \/ ProcWriteStderr
    \/ ProcExits
    \/ ReadStdout
    \/ StdoutEof
    \/ WaitReturns
    \/ ReadStderr

\* The process runs whenever it is not blocked, and the event loop resumes
\* the adapter whenever the operation it awaits can complete.
PipeSpec == PipeInit /\ [][PipeNext]_vars /\ WF_vars(PipeNext)

-----------------------------------------------------------------------------
(* Properties.                                                             *)

IsPrefix(a, b) == Len(a) <= Len(b) /\ SubSeq(b, 1, Len(a)) = a

\* The entries of a file all of whose lines save_message wrote.
SavedOnly(lines) == \A i \in 1..Len(lines) : lines[i].k = "object"
EntriesOf(lines) == [i \in 1..Len(lines) |-> lines[i].v]

\* C1: after any sequence of save_message calls to one identity,
\* load_history(identity, N) returns exactly the last min(N, count) entries
\* appended, in the order appended, for every N >= 0.
C1_LoadReturnsLastMin ==
    (lastRead.valid /\ SavedOnly(lastRead.lines)) =>
        LET all == EntriesOf(lastRead.lines)
            k == Min(lastRead.limit, Len(all))
        IN  lastRead.messages = SubSeq(all, Len(all) - k + 1, Len(all))

\* The lines of a file that are entries, in order.
RECURSIVE ValidEntries(_)
ValidEntries(lines) ==
    IF lines = <<>> THEN <<>>
    ELSE (IF Head(lines).k = "object" THEN <<Head(lines).v>> ELSE <<>>)
         \o ValidEntries(Tail(lines))
NumGarbage(lines) == Cardinality({i \in 1..Len(lines) : lines[i].k = "garbage"})

\* C2: a log of K valid lines and one malformed line, at any position, read
\* with a limit of at least K, yields the K valid entries in order.
C2_MalformedLineSkipped ==
    (/\ lastRead.valid
     /\ NumGarbage(lastRead.lines) = 1
     /\ \A i \in 1..Len(lastRead.lines) : lastRead.lines[i].k \in {"object", "garbage"}
     /\ lastRead.limit >= Len(ValidEntries(lastRead.lines)))
    => lastRead.messages = ValidEntries(lastRead.lines)

\* C3: every step leaves each log's earlier content as a prefix of its later
\* content, never deletes a log, and a request of one endpoint leaves the
\* other identity's log as it was.
C3_LogsAppendOnly ==
    [][/\ \A id \in Identities :
             /\ history[id].exists => history'[id].exists
             /\ IsPrefix(history[id].lines, history'[id].lines)
       /\ hpc # "idle" =>
             \A id \in Identities \ {IdentityOf(bot)} : history'[id] = history[id]
      ]_vars

\* Both logs held a turn, and a request of the main endpoint added one to its own.
C3_Witness ==
    /\ hpc = "returned" /\ bot = "main"
    /\ Len(history[WEB_USER_ID].lines) = 4
    /\ Len(history[DRAW_BOT_ID].lines) = 2
    /\ lastRead.valid /\ Len(lastRead.messages) = 4

\* The run of the adapter when stdout is delivered one line at a time.
RECURSIVE LineAtATime(_, _, _)
LineAtATime(bytes, st, failAt) ==
    LET i == FirstLF(bytes) IN
    IF i = 0 THEN LineStep(st, bytes, TRUE, failAt)
    ELSE LineAtATime(SubSeq(bytes, i + 1, Len(bytes)),
                     LineStep(st, SubSeq(bytes, 1, i - 1), FALSE, failAt), failAt)

AdapterDone == apc \in {"waiting", "returned"}

\* C4: the events passed to on_event and the text returned are those of the
\* line-at-a-time run of the same stdout, however the reads split it.
C4_ChunkingIrrelevant ==
    AdapterDone =>
        LET ref == LineAtATime(stream, RunState(<<>>, <<>>, FALSE), cbFailAt)
        IN  /\ events = ref.events
            /\ result_text = ref.result_text

\* Two deltas were read, a read ended inside a line, and the run is over.
C4_Witness ==
    /\ apc = "returned" /\ cut
    /\ result_text = <<[c |-> "a", n |-> 1], [c |-> "b", n |-> 1]>>
    /\ Len(events) = 2

\* Every line of stdout that is a JSON object, the unterminated last line
\* included, in order.
RECURSIVE AllEvents(_)
AllEvents(bytes) ==
    LET i == FirstLF(bytes)
        line == IF i = 0 THEN bytes ELSE SubSeq(bytes, 1, i - 1)
        o == IF DecodeRaises(line) THEN [kind |-> "raise", event |-> NoEvent]
             ELSE JsonLoadsEvent(Strip(line))
        here == IF o.kind = "event" THEN <<o.event>> ELSE <<>>
    IN  IF i = 0 THEN here ELSE here \o AllEvents(SubSeq(bytes, i + 1, Len(bytes)))

RECURSIVE DeltaText(_)
DeltaText(evs) ==
    IF evs = <<>> THEN <<>>
    ELSE Cat(IF Head(evs).type = "content_block_delta" THEN Head(evs).text ELSE <<>>,
             DeltaText(Tail(evs)))

\* C5: in a run that decoded every event of stdout: with no text_delta and a
\* result event of non-empty text R the returned text is R; with a non-empty
\* text_delta the returned text is the deltas, concatenated in arrival order,
\* whatever a result event carries.
C5_FinalTextExtraction ==
    (apc = "returned" /\ events = AllEvents(stream)) =>
        LET evs == events IN
        /\ (/\ \A i \in 1..Len(evs) : evs[i].type # "content_block_delta"
            /\ \E i \in 1..Len(evs) : evs[i].type = "result" /\ evs[i].text # <<>>)
           => \E i \in 1..Len(evs) : evs[i].type = "result" /\ result_text = evs[i].text
        /\ DeltaText(evs) # <<>> => result_text = DeltaText(evs)

\* C6: a line that is no JSON object is dropped alone: every well-formed line
\* of stdout is passed to on_event.
C6_MalformedLineDroppedAlone ==
    (apc = "returned" /\ cbFailAt = 0) => events = AllEvents(stream)

StreamActive == hpc \notin {"idle", "returned"}

\* C7: while the stream of the main endpoint is active and the client is
\* connected, no more than the ticker's interval has passed since the last
\* write.
C7_GapWithinInterval ==
    (bot = "main" /\ StreamActive /\ connected) => now - lastWrite <= KEEPALIVE_SLEEP

\* C8: when handle_message_stream has returned, the keep-alive task has ended
\* (cancelled, or out of its loop) and can write no ping.
C8_TickerEndedAtReturn ==
    (bot = "main" /\ hpc = "returned") =>
        /\ tpc \in {"cancelled", "stopped"}
        /\ ~keep_alive_active
        /\ ~ENABLED TickerWake

IsPing(w) == w.kind = "ping"
IsData(w) == w.kind = "data"

\* The main endpoint returned to a connected client after a ping and the done
\* frame, its ticker cancelled.
C8_Witness ==
    /\ bot = "main" /\ hpc = "returned" /\ connected
    /\ tpc = "cancelled"
    /\ \E i \in 1..Len(writes) : IsPing(writes[i])
    /\ writes[Len(writes)].d.type = "done"

\* C9: the payload of every data frame written is at most the ceiling.
C9_NoOversizedFrame ==
    \A i \in 1..Len(writes) : IsData(writes[i]) => writes[i].size <= MAX_SSE_EVENT_SIZE

ViaSse(w) == w.kind = "data" /\ w.via = "sse"
Oversized(d) == DumpsLen(d) > MAX_SSE_EVENT_SIZE

\* C10 as claimed: an oversized payload is replaced by a summary with its
\* type, truncated: true and a message of at most 500 characters; any other
\* payload is written unchanged.
C10_SummaryWithinPrefix ==
    \A i \in 1..Len(writes) :
        ViaSse(writes[i]) =>
            IF Oversized(writes[i].given)
            THEN /\ writes[i].d.type = writes[i].given.type
                 /\ HasKey(writes[i].d, "truncated") /\ writes[i].d.truncated
                 /\ TextLen(writes[i].d.message) <= SUMMARY_PREFIX
            ELSE writes[i].d = writes[i].given

\* C10 as amended: the summary's message is the first 500 characters of the
\* payload's message followed by "...", at most 503 characters; the summary
\* holds type, message and truncated only.
C10_SummaryPrefixPlusEllipsis ==
    \A i \in 1..Len(writes) :
        ViaSse(writes[i]) =>
            IF Oversized(writes[i].given)
            THEN /\ writes[i].d.type = writes[i].given.type
                 /\ writes[i].d.keys = <<"type", "message", "truncated">>
                 /\ writes[i].d.truncated
                 /\ writes[i].d.message
                        = Cat(Take(writes[i].given.message, SUMMARY_PREFIX), Plain(3))
                 /\ TextLen(writes[i].d.message) <= SUMMARY_PREFIX + 3
                 /\ writes[i].size <= MAX_SSE_EVENT_SIZE
            ELSE /\ writes[i].d = writes[i].given
                 /\ writes[i].size = DumpsLen(writes[i].given)

\* An oversized tool notice reached the client as a summary, and a status
\* notice reached it unchanged.
C10_Witness ==
    /\ \E i \in 1..Len(writes) :
          /\ ViaSse(writes[i]) /\ writes[i].ok
          /\ Oversized(writes[i].given) /\ writes[i].d.truncated
          /\ TextLen(writes[i].d.message) = SUMMARY_PREFIX + 3
    /\ \E i \in 1..Len(writes) :
          /\ ViaSse(writes[i]) /\ writes[i].ok
          /\ writes[i].d = StatusDict(Plain(15))

\* The data frames written so far, and those of them that carry the answer.
DataWrites == SelectSeq(writes, IsData)
IsAnswer(w) == IsData(w) /\ w.d.type \in {"response", "response_chunk"}
AnswerWrites == SelectSeq(writes, IsAnswer)
AllWritesOk == \A i \in 1..Len(writes) : writes[i].ok
PastAnswer == hpc \in {"done", "finally", "joining", "returned"}

\* The run succeeded and every frame of the answer reached the client.
AnswerSent == result # <<>> /\ PastAnswer /\ AllWritesOk

\* C11: a cleaned answer of exactly MAX_SSE_CHUNK characters is written as one
\* response frame that carries no partial mark; an answer one character longer
\* is written as two frames or more, each but the last a response_chunk with
\* partial: true, the last a response with partial: false.
C11_ChunkBoundary ==
    AnswerSent =>
        LET A == AnswerWrites IN
        /\ TextLen(result) = MAX_SSE_CHUNK =>
              /\ Len(A) = 1
              /\ A[1].d.type = "response"
              /\ ~HasKey(A[1].d, "partial")
              /\ A[1].d.content = result
        /\ TextLen(result) = MAX_SSE_CHUNK + 1 =>
              /\ Len(A) >= 2
              /\ \A i \in 1..(Len(A) - 1) :
                    /\ A[i].d.type = "response_chunk"
                    /\ HasKey(A[i].d, "partial") /\ A[i].d.partial
                    /\ TextLen(A[i].d.content) = MAX_SSE_CHUNK
              /\ A[Len(A)].d.type = "response"
              /\ HasKey(A[Len(A)].d, "partial") /\ ~A[Len(A)].d.partial
              /\ TextLen(A[Len(A)].d.content) = 1

\* An answer one character over the limit went out in two frames.
C11_Witness ==
    /\ AnswerSent /\ hpc = "returned"
    /\ TextLen(result) = MAX_SSE_CHUNK + 1
    /\ Len(AnswerWrites) = 2
    /\ AnswerWrites[1].d.partial /\ ~AnswerWrites[2].d.partial

ProgressTypes == {"status", "tool", "tool_result"}
PastTry == hpc \in {"finally", "joining", "returned"}

\* The types of the data frames written so far, in the order written.
DataTypes == [i \in 1..Len(DataWrites) |-> DataWrites[i].d.type]

\* C12: a stream of the main endpoint whose run succeeded and whose client
\* stayed connected carries, in this order, progress frames, response_chunk
\* frames, one response frame and one done frame, the done frame last.
C12_FrameOrder ==
    (bot = "main" /\ PastTry /\ connected /\ result # <<>>) =>
        LET T == DataTypes
            n == Len(T)
        IN  /\ n >= 2
            /\ T[n] = "done"
            /\ T[n - 1] = "response"
            /\ \E p \in 0..(n - 2) :
                  /\ \A i \in 1..p : T[i] \in ProgressTypes
                  /\ \A i \in (p + 1)..(n - 2) : T[i] = "response_chunk"
            /\ AllWritesOk

\* A status frame, a chunked answer and the done frame reached the client.
C12_Witness ==
    /\ bot = "main" /\ hpc = "returned" /\ connected
    /\ DataTypes = <<"status", "response_chunk", "response", "done">>

\* The line save_message writes for one turn.
TurnLine(role, content) ==
    [k |-> "object", v |-> [role |-> role, content |-> content, source |-> "web"]]

\* The step in which call_claude_streaming returns a successful run.
RunSucceeds ==
    hpc = "wait" /\ hpc' # "wait" /\ returncode' = 0 /\ result_text # <<>>

RECURSIVE CountChar(_, _)
CountChar(t, ch) ==
    IF t = <<>> THEN 0
    ELSE (IF Head(t).c = ch THEN Head(t).n ELSE 0) + CountChar(Tail(t), ch)

IsError(w) == IsData(w) /\ w.d.type = "error"
ErrorWrites == SelectSeq(writes, IsError)

\* The request had a message, the run ended with a non-zero exit code or an
\* empty result, and the handler is past its try statement.
RunFailed ==
    /\ user_message # <<>> /\ PastTry
    /\ returncode # NoReturnCode
    /\ (returncode # 0 \/ result_text = <<>>)

\* C14: after a run that ended with a non-zero exit code or an empty result
\* the stream holds exactly one error frame, its last data frame; the message
\* is the escaped first 500 characters of stderr, or of "No response" when
\* stderr is empty (each escape standing for one character); no response,
\* response_chunk or done frame is written and the process is not run again.
C14_SingleBoundedError ==
    RunFailed =>
        LET E == ErrorWrites
            D == DataWrites
            src == IF stderr_text # <<>> THEN stderr_text ELSE Plain(11)
        IN  /\ Len(E) = 1
            /\ D[Len(D)] = E[1]
            /\ E[1].d.message = ErrorMsg(src)
            /\ TextLen(E[1].d.message) - CountChar(E[1].d.message, "BS") <= ERROR_PREFIX
            /\ \A i \in 1..Len(D) : D[i].d.type \notin {"response", "response_chunk", "done"}
            /\ result = <<>>
            /\ ~ENABLED Spawn(TRUE)

\* The run of the main endpoint failed with a stderr text longer than 500
\* characters, after a progress frame: the error frame holds 500 of them, the
\* newline among them escaped.
C14_Witness ==
    /\ bot = "main" /\ hpc = "returned" /\ RunFailed
    /\ returncode = 1 /\ TextLen(stderr_text) > ERROR_PREFIX
    /\ Len(DataWrites) = 2 /\ DataTypes = <<"status", "error">>
    /\ TextLen(ErrorWrites[1].d.message) = ERROR_PREFIX + 1

\* C15: once a write to the response has failed, nothing writes to it again:
\* a failed write is the last write of the stream.
C15_NoWriteAfterFailure ==
    \A i \in 1..(Len(writes) - 1) : writes[i].ok

\* C16: a stream of the draw bot runs a keep-alive ticker from its start, and
\* one that succeeded with the client connected ends with the done frame, as a
\* stream of the main endpoint does.
C16_DrawBotSameProtocol ==
    (bot = "draw" /\ hpc # "idle") =>
        /\ tpc # "none"
        /\ (hpc = "returned" /\ connected /\ result # <<>>) =>
              DataTypes[Len(DataTypes)] = "done"

\* What a progress frame tells: its type and, for a tool frame, the tool.
Notice(type, name) == [type |-> type, name |-> name]

\* The notices due for the blocks of one message, in order.
RECURSIVE BlockNotices(_, _, _)
BlockNotices(blocks, blockType, frameType) ==
    IF blocks = <<>> THEN <<>>
    ELSE (IF Head(blocks).type = blockType
          THEN <<Notice(frameType, Head(blocks).name)>> ELSE <<>>)
         \o BlockNotices(Tail(blocks), blockType, frameType)

\* The notices due for a sequence of events, in order.
RECURSIVE EventNotices(_)
EventNotices(evs) ==
    IF evs = <<>> THEN <<>>
    ELSE LET e == Head(evs) IN
         (IF e.type = "system" /\ e.subtype = "init" THEN <<Notice("status", <<>>)>>
          ELSE IF e.type = "assistant" THEN BlockNotices(e.blocks, "tool_use", "tool")
          ELSE IF e.type = "user"
          THEN BlockNotices(e.blocks, "tool_result", "tool_result")
          ELSE <<>>)
         \o EventNotices(Tail(evs))

\* The notices of the progress frames written so far.
ProgressWrites == SelectSeq(writes, ViaSse)
WrittenNotices ==
    [i \in 1..Len(ProgressWrites) |->
        Notice(ProgressWrites[i].d.type, ProgressWrites[i].given.name)]

InsideRoot(path) ==
    \E i \in 1..Len(allowed_roots) : IsPrefix(allowed_roots[i], path)

\* C17: a request whose resolved path lies outside both roots, a path in a
\* sibling directory whose name begins with a root's name included, is
\* answered 404; a file is served only from inside a root.
C17_ServedOnlyInsideRoots ==
    (ipc = "done" /\ img_path.given) =>
        LET path == Resolve(img_path.segs)
        IN  InsideRoot(path) \/ img_response.status = 404

\* C18: the file never holds more than the limit; an upload that went over
\* the limit is answered with an error and its file is gone; an upload that
\* ended within the limit is answered with success, the file holds the chunks
\* received, in order, and the size reported is their total.
C18_UploadCeiling ==
    LET total == SumSeq(up_received) IN
    /\ up_file.exists => SumSeq(up_file.data) <= UPLOAD_LIMIT
    /\ total > UPLOAD_LIMIT =>
          /\ upc = "done"
          /\ up_response.status = 413
          /\ ~up_file.exists
    /\ (upc = "done" /\ total <= UPLOAD_LIMIT /\ up_response.status \notin {400, 500}) =>
          /\ up_response.status = 200
          /\ up_file.exists
          /\ up_file.data = up_received
          /\ up_response.size = total

\* An upload of exactly the limit, in two chunks, was stored.
C18_Witness ==
    /\ upc = "done" /\ up_response.status = 200
    /\ up_received = <<UPLOAD_LIMIT - 1, 1>>
    /\ up_response.size = UPLOAD_LIMIT
    /\ up_file.data = up_received

OpsDone == [i \in 1..Len(em_smtp) |-> em_smtp[i].op]
SomeOpFailed == \E i \in 1..Len(em_smtp) : em_smtp[i].exc # "none"

\* C19: neither function raises.  Without both credentials the call returns
\* success: false with a message and no SMTP operation was attempted; a call
\* in which login, sendmail or any other step raised returns success: false
\* with a message; success: true is returned only after connect, login and
\* sendmail completed.
C19_EmailNeverRaises ==
    /\ epc # "raised" /\ ~em_result.raised
    /\ epc = "returned" =>
          /\ em_result.returned /\ em_result.message # ""
          /\ ~Configured(em_call) => (~em_result.success /\ em_smtp = <<>>)
          /\ SomeOpFailed => ~em_result.success
          /\ em_result.success =>
                /\ Configured(em_call)
                /\ ~SomeOpFailed
                /\ OpsDone = <<"connect", "login", "sendmail", "quit">>

\* send_calendar_invite returned a failure after sendmail raised.
C19_Witness ==
    /\ epc = "returned" /\ em_call.fn = "send_calendar_invite"
    /\ em_smtp = <<[op |-> "connect", exc |-> "none"], [op |-> "login", exc |-> "none"],
                   [op |-> "sendmail", exc |-> "other"], [op |-> "quit", exc |-> "none"]>>
    /\ ~em_result.success /\ em_result.message = "Failed to send calendar invite"

\* C21: the event left in the buffer at end-of-stream is processed like every
\* other: when stdout does not end with a newline and on_event never raises,
\* the text returned and the events passed to on_event are those of the same
\* stdout with the newline.
C21_ResidualLikeEveryLine ==
    (apc = "returned" /\ cbFailAt = 0 /\ stream # <<>> /\ stream[Len(stream)] # LF) =>
        LET ref == LineAtATime(stream \o <<LF>>, RunState(<<>>, <<>>, FALSE),
                               cbFailAt)
        IN  /\ events = ref.events
            /\ result_text = ref.result_text

\* C22: the keep-alive task writes a ping to a connected client only when no
\* frame of any kind was written to the response in the KEEPALIVE_QUIET time
\* units before it: the clock it compares against holds the time of the most
\* recent write.
C22_PingOnlyAfterQuiet ==
    [][(/\ bot = "main" /\ connected
        /\ Len(writes') = Len(writes) + 1
        /\ IsPing(writes'[Len(writes')]))
       => now - lastWrite >= KEEPALIVE_QUIET]_vars

\* C24: the cleaned answer, which is persisted and sent, contains no match of
\* either directive pattern: cleaning it a second time changes nothing.
C24_NoDirectiveLeft ==
    cpc = "cleaned" =>
        /\ ReSub(clean_result, "check_inbox") = clean_result
        /\ ReSub(clean_result, "send_email") = clean_result
        /\ CleanResponse(clean_result) = clean_result

\* The turns of the log of the endpoint's identity that a prompt shows: the
\* last `window` of them.
ShownTurns ==
    LET lines == history[IdentityOf(bot)].lines
        window == IF bot = "main" THEN PROMPT_WINDOW ELSE DRAW_PROMPT_WINDOW
    IN  PyLastN([i \in 1..Len(lines) |-> lines[i].v], window)

\* The blocks of the prompt between the static instructions and the user
\* message.
IsOptionalPart(q) == q.part \in {"memory", "draw_bot_profile", "conversation_history"}
OptionalParts == SelectSeq(prompt, IsOptionalPart)

PromptAsClaimed ==
    LET n == Len(prompt)
        O == OptionalParts
        mem == IF bot = "main" THEN "memory" ELSE "draw_bot_profile"
    IN  /\ n >= 2
        /\ prompt[1].part = "system_instructions"
        /\ prompt[n] = [part |-> "user_message", lines |-> <<user_message>>]
        /\ [i \in 1..Len(O) |-> O[i].part]
               \in { <<>>, <<mem>>, <<"conversation_history">>,
                     <<mem, "conversation_history">> }
        /\ \A i \in 1..Len(O) :
              IF O[i].part = "conversation_history"
              THEN /\ O[i].lines # <<>>
                   /\ O[i].lines = [j \in 1..Len(ShownTurns) |->
                                      <<ShownTurns[j].role, ShownTurns[j].content>>]
              ELSE O[i].lines[1] # <<>>
        /\ (ShownTurns # <<>>) =>
              \E i \in 1..Len(O) : O[i].part = "conversation_history"

\* C25: a prompt holds, in this order, the static instructions, the memory or
\* profile block if the file has content, the history block with the last
\* turns of the log as role and content if the log has turns, and the user
\* message; a block without content is left out; building it changes no log.
C25_PromptLayout ==
    [][(hpc = "request" /\ hpc' = "spawn") => (PromptAsClaimed' /\ history' = history)]_vars

\* The run succeeded and every frame of the answer was written to a connected
\* client.
RunAnswered ==
    /\ returncode = 0 /\ result_text # <<>>
    /\ PastAnswer /\ AllWritesOk

RECURSIVE ContentOf(_)
ContentOf(ws) ==
    IF ws = <<>> THEN <<>> ELSE Cat(Head(ws).d.content, ContentOf(Tail(ws)))

\* C23: the content fields of the response_chunk and response frames, joined
\* in the order written, are the cleaned answer, which is the content of the
\* assistant turn persisted; no slice is longer than MAX_SSE_CHUNK characters,
\* none is empty, and exactly one frame, the last, has type response.
C23_FramesCarryCleanedAnswer ==
    RunAnswered =>
        LET A == AnswerWrites
            lines == history[IdentityOf(bot)].lines
        IN  /\ result = CleanResponse(result_text)
            /\ ContentOf(A) = result
            /\ lines # <<>>
            /\ lines[Len(lines)] = TurnLine("assistant", result)
            /\ Len(A) >= 1
            /\ A[Len(A)].d.type = "response"
            /\ \A i \in 1..(Len(A) - 1) : A[i].d.type = "response_chunk"
            /\ \A i \in 1..Len(A) :
                  /\ TextLen(A[i].d.content) <= MAX_SSE_CHUNK
                  /\ TextLen(A[i].d.content) > 0

\* C26: no exception raised in the try block of handle_message_stream leaves
\* the handler; the stream holds at most one error frame, and no response,
\* response_chunk or done frame after an error frame.
C26_ExceptionsContained ==
    bot = "main" =>
        LET T == DataTypes IN
        /\ hpc # "raised"
        /\ Len(ErrorWrites) <= 1
        /\ \A i \in 1..Len(T) : \A j \in (i + 1)..Len(T) :
              T[i] = "error" => T[j] \notin {"response", "response_chunk", "done"}

\* stderr.decode() raised after a progress frame was written: the handler
\* wrote the exception's text as an error frame and returned.
C26_Witness ==
    /\ bot = "main" /\ hpc = "returned" /\ connected
    /\ returncode = NoReturnCode /\ fed > 0
    /\ DataTypes = <<"status", "error">>
    /\ ErrorWrites[1].d.message = ExcMessage("UnicodeDecodeError")

\* The requests whose two save_message calls are behind them.
Saved(r) == rpc[r] \in {"write_answer", "write_done", "return"}

C28_AdapterReturns == <>(wpc = "returned")

=============================================================================
